---- MODULE Spec2Model ----
(***************************************************************************)
(* Policy decision engine of the claims workbench: the cost estimator      *)
(* (src/server/costing.ts) and the policy engine (src/server/policy.ts).   *)
(*                                                                         *)
(* Units.  Money is integer cents.  A JavaScript number that may be        *)
(* undefined or NaN is a sequence: <<>> is undefined / NaN, <<n>> is the   *)
(* number n.  Part confidences are integers in thousandths (850 is 0.85);  *)
(* overall_confidence and the confidence thresholds are in hundredths      *)
(* (80 is 0.8).  Severity multipliers are in tenths, damage-type           *)
(* multipliers and area factors in hundredths, standardDeviation in        *)
(* hundredths, the fraud score in tenths.  Arithmetic is exact: a double    *)
(* can round a tie the other way (by 0.01 of overall_confidence), which    *)
(* moves no drawn input across a threshold.  A parts argument that is      *)
(* null is the one-element sequence Null.                                  *)
(***************************************************************************)
EXTENDS Integers, Sequences, FiniteSets, TLC

VARIABLES
    parts,          \* applyPolicy: the parts argument
    context,        \* applyPolicy: the context argument
    pc,             \* applyPolicy: "idle" before the call, "done" after it
                    \* returned, "threw" after it threw
    decision,       \* applyPolicy: the PolicyDecision returned
    validation,     \* validateAssessment: the {valid, errors} returned
    costPart,       \* estimatePartCostRange: the part argument
    costPc,         \* estimatePartCostRange: "idle" / "done"
    costRange,      \* estimatePartCostRange: the {min, max} returned
    recConfidence,  \* determineRecommendation: confidence argument
    recTotalMax,    \* determineRecommendation: total_max argument
    recFlags,       \* determineRecommendation: flags argument
    recPc,          \* determineRecommendation: "idle" / "done"
    recResult,      \* determineRecommendation: the recommendation returned
    totParts,       \* computeTotalsFromParts: the parts argument
    totPc,          \* computeTotalsFromParts: "idle" / "done"
    totResult,      \* computeTotalsFromParts: the totals returned
    calls,          \* the applyPolicy calls made so far, with their results
    clock,          \* the system clock read by new Date()
    store,          \* useClaimStore: the ClaimState held by the store
    storeCall,      \* useClaimStore: the last store action taken
    pendingRuns,    \* useClaimStore: runAssessment calls awaiting their timer
    page,           \* Home: the values of the component's useState hooks
    pageCall,       \* Home: the last handler run, with the snapshot it restored
    pendingTimers   \* Home: setTimeout callbacks of handleRunAssessment not yet run

vars == <<parts, context, pc, decision, validation, costPart, costPc, costRange,
          recConfidence, recTotalMax, recFlags, recPc, recResult,
          totParts, totPc, totResult, calls, clock,
          store, storeCall, pendingRuns, page, pageCall, pendingTimers>>

policyVars == <<parts, context, pc, decision, validation>>
costVars == <<costPart, costPc, costRange>>
recVars == <<recConfidence, recTotalMax, recFlags, recPc, recResult>>
totVars == <<totParts, totPc, totResult>>
callVars == <<calls, clock>>
storeVars == <<store, storeCall, pendingRuns>>
pageVars == <<page, pageCall, pendingTimers>>

----------------------------------------------------------------------------
(* JavaScript numbers *)

NaN == <<>>
Undefined == <<>>
Null == <<[null |-> TRUE]>>
Num(n) == <<n>>
IsNumber(x) == x # <<>>

\* a + b, NaN when either operand is undefined or NaN
Plus(a, b) == IF IsNumber(a) /\ IsNumber(b) THEN Num(a[1] + b[1]) ELSE NaN

\* comparisons are false when an operand is NaN
Gt(a, n) == IsNumber(a) /\ a[1] > n
Le(a, n) == IsNumber(a) /\ a[1] <= n

Abs(n) == IF n < 0 THEN -n ELSE n
Max(a, b) == IF a >= b THEN a ELSE b
Min(a, b) == IF a <= b THEN a ELSE b

\* Math.round(num / den) for den > 0: the nearest integer, halves rounded up
MathRound(num, den) == (2 * num + den) \div (2 * den)

\* String.prototype.toLowerCase on the strings the model uses
ToLowerCase(s) ==
    CASE s = "SEVERE" -> "severe"
      [] s = "Minor" -> "minor"
      [] s = "Dent" -> "dent"
      [] s = "SCRATCH" -> "scratch"
      [] OTHER -> s

----------------------------------------------------------------------------
(* src/types/assessment.ts enums *)

PartSeverity ==
    [MINOR |-> "minor", MODERATE |-> "moderate", SEVERE |-> "severe",
     REPLACE |-> "replace", STRUCTURAL |-> "structural"]

VehiclePart ==
    [REAR_BUMPER |-> "rear_bumper", TRUNK_LID |-> "trunk_lid",
     REAR_RIGHT_TAILLIGHT |-> "rear_right_taillight",
     REAR_LEFT_TAILLIGHT |-> "rear_left_taillight",
     LEFT_QUARTER_PANEL |-> "left_quarter_panel", FRAME |-> "frame"]

RecommendationCode ==
    [FAST_TRACK_REVIEW |-> "FAST_TRACK_REVIEW", MANUAL_REVIEW |-> "MANUAL_REVIEW",
     ESCALATE_SENIOR |-> "ESCALATE_SENIOR",
     ESCALATE_STRUCTURAL |-> "ESCALATE_STRUCTURAL"]

RiskFlag ==
    [LOW_CONFIDENCE |-> "LOW_CONFIDENCE", HIGH_EXPOSURE |-> "HIGH_EXPOSURE",
     STRUCTURAL_DAMAGE |-> "STRUCTURAL_DAMAGE", MISSING_ANGLES |-> "MISSING_ANGLES",
     INCONSISTENT_DAMAGE |-> "INCONSISTENT_DAMAGE"]

\* Array.prototype.includes
Includes(seq, x) == \E i \in 1..Len(seq) : seq[i] = x

----------------------------------------------------------------------------
(* src/config/policy.ts COST (cents; multipliers scaled as in the header) *)

LABOR_FRACTION_PCT == 30
DEFAULT_BASE_PART_COST == 40000
MIN_PART_COST == 10000
RANGE_MIN_MULTIPLIER_TENTHS == 8
RANGE_MAX_MULTIPLIER_TENTHS == 12
DEFAULT_DAMAGE_TYPE_MULTIPLIER_PCT == 50
DAMAGE_TYPE_MULTIPLIER_MIN_PCT == 40
DAMAGE_TYPE_MULTIPLIER_MAX_PCT == 200
AREA_FACTOR_NORMALIZATION_PERCENT == 50
AREA_FACTOR_MIN_PCT == 30
AREA_FACTOR_MAX_PCT == 150

\* costing.ts BASE_PART_COST: the part ids that have a specific base cost
BASE_PART_COST ==
    [rear_bumper |-> 50000, trunk_lid |-> 60000, rear_left_taillight |-> 20000,
     rear_right_taillight |-> 20000, frame |-> 300000]

\* costing.ts SEVERITY_MULTIPLIER_BY_KEY, in tenths
SEVERITY_MULTIPLIER_BY_KEY ==
    [minor |-> 6, moderate |-> 10, severe |-> 15, replace |-> 18, structural |-> 25]

\* costing.ts DAMAGE_TYPE_MULTIPLIER, in hundredths
DAMAGE_TYPE_MULTIPLIER ==
    [scratch |-> 30, scuff |-> 25, dent |-> 60, crack |-> 70, crush |-> 110,
     tear |-> 80, shatter |-> 90, misalignment |-> 60, structural_compromise |-> 150]

----------------------------------------------------------------------------
(* src/server/costing.ts *)

getBasePartCost(part) ==
    IF part.part_id \in DOMAIN BASE_PART_COST
    THEN BASE_PART_COST[part.part_id]
    ELSE DEFAULT_BASE_PART_COST

\* getSeverityMultiplier looking the severity up as written
getSeverityMultiplier_CaseSensitive(severity) ==
    IF severity \in DOMAIN SEVERITY_MULTIPLIER_BY_KEY
    THEN SEVERITY_MULTIPLIER_BY_KEY[severity]
    ELSE 10

\* in tenths
getSeverityMultiplier(severity) ==
    LET normalized == ToLowerCase(severity)
    IN  IF normalized \in DOMAIN SEVERITY_MULTIPLIER_BY_KEY
        THEN SEVERITY_MULTIPLIER_BY_KEY[normalized]
        ELSE 10

\* the area factor of one damage type entry, in hundredths:
\* clamp(area / NORMALIZATION_PERCENT, MIN, MAX), 1.0 when area is absent
areaFactor(area) ==
    IF IsNumber(area)
    THEN Max(AREA_FACTOR_MIN_PCT,
             Min(AREA_FACTOR_MAX_PCT,
                 (area[1] * 100) \div AREA_FACTOR_NORMALIZATION_PERCENT))
    ELSE 100

\* base multiplier of one damage type entry, in hundredths
damageTypeBase(d) ==
    LET key == ToLowerCase(d.type)
    IN  IF key \in DOMAIN DAMAGE_TYPE_MULTIPLIER
        THEN DAMAGE_TYPE_MULTIPLIER[key]
        ELSE DEFAULT_DAMAGE_TYPE_MULTIPLIER_PCT

\* the loop's running total over damageTypes[1..n], in units of 1/10000
RECURSIVE damageTotal(_, _)
damageTotal(damageTypes, n) ==
    IF n = 0 THEN 0
    ELSE damageTotal(damageTypes, n - 1)
         + damageTypeBase(damageTypes[n]) * areaFactor(damageTypes[n].area_percentage)

\* the multiplier as the fraction num / den
getDamageTypeMultiplier(damageTypes) ==
    IF Len(damageTypes) = 0
    THEN [num |-> 10000, den |-> 10000]
    ELSE LET total == damageTotal(damageTypes, Len(damageTypes))
             den == 10000 * Len(damageTypes)
             \* avg = total / length || 1.0
             avgNum == IF total = 0 THEN den ELSE total
         IN  [num |-> Max(DAMAGE_TYPE_MULTIPLIER_MIN_PCT * 100 * Len(damageTypes),
                          Min(DAMAGE_TYPE_MULTIPLIER_MAX_PCT * 100 * Len(damageTypes),
                              avgNum)),
              den |-> den]

hasValidRange(part) ==
    /\ IsNumber(part.estimated_cost_min)
    /\ IsNumber(part.estimated_cost_max)
    /\ part.estimated_cost_max[1] >= part.estimated_cost_min[1]

\* mid = base * severityMul * damageMul as the fraction num / den.  The
\* fraction (base * severityMul / 10) * (damageMul.num / damageMul.den) is
\* reduced by 1000: every base cost is a multiple of 10000 cents and every
\* damageMul.den a multiple of 10000, so both divisions are exact
midpoint(part) ==
    LET base == getBasePartCost(part)
        severityMul == getSeverityMultiplier(part.severity)
        damageMul == getDamageTypeMultiplier(part.damage_types)
    IN  [num |-> ((base * severityMul) \div 10000) * damageMul.num,
         den |-> damageMul.den \div 1000]

\* estimatePartCostRange with the MIN_PART_COST floor applied to a supplied
\* range too
estimatePartCostRange_FloorsSupplied(part) ==
    IF hasValidRange(part)
    THEN [min |-> Max(MIN_PART_COST, part.estimated_cost_min[1]),
          max |-> Max(MIN_PART_COST, part.estimated_cost_max[1])]
    ELSE LET mid == midpoint(part)
         IN  [min |-> Max(MIN_PART_COST,
                          MathRound(mid.num * RANGE_MIN_MULTIPLIER_TENTHS, mid.den * 10)),
              max |-> MathRound(mid.num * RANGE_MAX_MULTIPLIER_TENTHS, mid.den * 10)]

estimatePartCostRange(part) ==
    IF hasValidRange(part)
    THEN [min |-> part.estimated_cost_min[1], max |-> part.estimated_cost_max[1]]
    ELSE LET mid == midpoint(part)
         IN  [min |-> Max(MIN_PART_COST,
                          MathRound(mid.num * RANGE_MIN_MULTIPLIER_TENTHS, mid.den * 10)),
              max |-> MathRound(mid.num * RANGE_MAX_MULTIPLIER_TENTHS, mid.den * 10)]

\* computeTotalsFromParts's loop over parts[1..n]: the sums of the estimated
\* ranges
RECURSIVE partsSum(_, _)
partsSum(ps, n) ==
    IF n = 0 THEN [min |-> 0, max |-> 0]
    ELSE LET acc == partsSum(ps, n - 1)
             r == estimatePartCostRange(ps[n])
         IN  [min |-> acc.min + r.min, max |-> acc.max + r.max]

\* computeTotalsFromParts with one labor figure, from the mean of the two
\* sums, added to both bounds
computeTotalsFromParts_BlendedLabor(ps) ==
    LET sums == partsSum(ps, Len(ps))
        labor == MathRound((sums.min + sums.max) * LABOR_FRACTION_PCT, 200)
    IN  [total_min |-> sums.min + labor, total_max |-> sums.max + labor,
         labor_min |-> labor, labor_max |-> labor]

computeTotalsFromParts(ps) ==
    LET sums == partsSum(ps, Len(ps))
        labor_min == MathRound(sums.min * LABOR_FRACTION_PCT, 100)
        labor_max == MathRound(sums.max * LABOR_FRACTION_PCT, 100)
    IN  [total_min |-> sums.min + labor_min, total_max |-> sums.max + labor_max,
         labor_min |-> labor_min, labor_max |-> labor_max]

----------------------------------------------------------------------------
(* src/server/policy.ts CONFIG (local constants of the policy engine) *)

FAST_TRACK_CONFIDENCE_THRESHOLD == 80
FAST_TRACK_MAX_COST == 300000
ESCALATION_MIN_CONFIDENCE == 60
ESCALATION_HIGH_EXPOSURE_THRESHOLD == 500000
ENABLE_FRAUD_DETECTION == TRUE
MODEL_VERSION == "v2.3.1"

----------------------------------------------------------------------------
(* src/server/policy.ts *)

\* parts.reduce over parts[1..n]; an undefined cost makes the sum NaN
RECURSIVE calculateTotalsUpTo(_, _)
calculateTotalsUpTo(ps, n) ==
    IF n = 0 THEN [total_min |-> Num(0), total_max |-> Num(0)]
    ELSE LET acc == calculateTotalsUpTo(ps, n - 1)
         IN  [total_min |-> Plus(acc.total_min, ps[n].estimated_cost_min),
              total_max |-> Plus(acc.total_max, ps[n].estimated_cost_max)]

calculateTotals(ps) == calculateTotalsUpTo(ps, Len(ps))

\* calculateTotals throwing also for a part without a numeric cost
calculateTotalsThrows_MissingCost(ps) ==
    \/ ps = Null
    \/ \E i \in 1..Len(ps) :
           ~IsNumber(ps[i].estimated_cost_min) \/ ~IsNumber(ps[i].estimated_cost_max)

\* parts.reduce is a TypeError when parts is null; on an array the reducer
\* only adds numbers and does not throw
calculateTotalsThrows(ps) == ps = Null

RECURSIVE confidenceSum(_, _)
confidenceSum(ps, n) ==
    IF n = 0 THEN 0 ELSE confidenceSum(ps, n - 1) + ps[n].confidence

\* calculateOverallConfidence returning 1 for an empty list
calculateOverallConfidence_EmptyIsOne(ps) ==
    IF Len(ps) = 0 THEN 100
    ELSE MathRound(confidenceSum(ps, Len(ps)), 10 * Len(ps))

\* calculateOverallConfidence with the result clamped to [0, 1]
calculateOverallConfidence_Clamped(ps) ==
    IF Len(ps) = 0 THEN 0
    ELSE Max(0, Min(100, MathRound(confidenceSum(ps, Len(ps)), 10 * Len(ps))))

\* Math.round(avg * 100) / 100, in hundredths (the sum is in thousandths)
calculateOverallConfidence(ps) ==
    IF Len(ps) = 0 THEN 0
    ELSE MathRound(confidenceSum(ps, Len(ps)), 10 * Len(ps))

\* collectRiskFlags with the low-confidence comparison inclusive
collectRiskFlags_LowConfInclusive(ps, total_max, overall_confidence, ctx) ==
    LET structural ==
            IF \E i \in 1..Len(ps) :
                   \/ ps[i].severity = PartSeverity.STRUCTURAL
                   \/ ps[i].part_id = VehiclePart.FRAME
            THEN <<RiskFlag.STRUCTURAL_DAMAGE>> ELSE <<>>
        exposure ==
            IF Gt(total_max, 500000)
            THEN <<RiskFlag.HIGH_EXPOSURE>> ELSE <<>>
        lowConf ==
            IF overall_confidence <= 60
            THEN <<RiskFlag.LOW_CONFIDENCE>> ELSE <<>>
        historical ==
            IF /\ ctx.historicalData # Undefined
               /\ ctx.historicalData[1].standardDeviation > 30
            THEN <<RiskFlag.INCONSISTENT_DAMAGE>> ELSE <<>>
    IN  structural \o exposure \o lowConf \o historical

collectRiskFlags(ps, total_max, overall_confidence, ctx) ==
    LET structural ==
            IF \E i \in 1..Len(ps) :
                   \/ ps[i].severity = PartSeverity.STRUCTURAL
                   \/ ps[i].part_id = VehiclePart.FRAME
            THEN <<RiskFlag.STRUCTURAL_DAMAGE>> ELSE <<>>
        exposure ==
            IF Gt(total_max, ESCALATION_HIGH_EXPOSURE_THRESHOLD)
            THEN <<RiskFlag.HIGH_EXPOSURE>> ELSE <<>>
        lowConf ==
            IF overall_confidence < ESCALATION_MIN_CONFIDENCE
            THEN <<RiskFlag.LOW_CONFIDENCE>> ELSE <<>>
        historical ==
            IF /\ ctx.historicalData # Undefined
               /\ ctx.historicalData[1].standardDeviation > 30
            THEN <<RiskFlag.INCONSISTENT_DAMAGE>> ELSE <<>>
    IN  structural \o exposure \o lowConf \o historical

\* determineRecommendation with the fast-track window tested before the
\* structural flag
determineRecommendation_FastTrackFirst(confidence, total_max, ps, flags) ==
    IF /\ confidence >= 80
       /\ Le(total_max, 300000)
       /\ ~Includes(flags, RiskFlag.HIGH_EXPOSURE)
       /\ ~Includes(flags, RiskFlag.LOW_CONFIDENCE)
    THEN [code |-> RecommendationCode.FAST_TRACK_REVIEW,
          text |-> "Fast-track approval recommended"]
    ELSE IF Includes(flags, RiskFlag.STRUCTURAL_DAMAGE)
    THEN [code |-> RecommendationCode.ESCALATE_STRUCTURAL,
          text |-> "Escalate for structural review"]
    ELSE IF confidence < 60 \/ Gt(total_max, 500000)
    THEN [code |-> RecommendationCode.ESCALATE_SENIOR,
          text |-> "Escalate to senior adjuster"]
    ELSE [code |-> RecommendationCode.MANUAL_REVIEW,
          text |-> "Manual review recommended"]

\* determineRecommendation with the two flag tests of the fast-track window
\* left out
determineRecommendation_NoFlagTest(confidence, total_max, ps, flags) ==
    IF Includes(flags, RiskFlag.STRUCTURAL_DAMAGE)
    THEN [code |-> RecommendationCode.ESCALATE_STRUCTURAL,
          text |-> "Escalate for structural review"]
    ELSE IF confidence >= 80 /\ Le(total_max, 300000)
    THEN [code |-> RecommendationCode.FAST_TRACK_REVIEW,
          text |-> "Fast-track approval recommended"]
    ELSE IF confidence < 60 \/ Gt(total_max, 500000)
    THEN [code |-> RecommendationCode.ESCALATE_SENIOR,
          text |-> "Escalate to senior adjuster"]
    ELSE [code |-> RecommendationCode.MANUAL_REVIEW,
          text |-> "Manual review recommended"]

\* determineRecommendation with both fast-track comparisons strict
determineRecommendation_StrictWindow(confidence, total_max, ps, flags) ==
    IF Includes(flags, RiskFlag.STRUCTURAL_DAMAGE)
    THEN [code |-> RecommendationCode.ESCALATE_STRUCTURAL,
          text |-> "Escalate for structural review"]
    ELSE IF /\ confidence > 80
            /\ IsNumber(total_max) /\ total_max[1] < 300000
            /\ ~Includes(flags, RiskFlag.HIGH_EXPOSURE)
            /\ ~Includes(flags, RiskFlag.LOW_CONFIDENCE)
    THEN [code |-> RecommendationCode.FAST_TRACK_REVIEW,
          text |-> "Fast-track approval recommended"]
    ELSE IF confidence < 60 \/ Gt(total_max, 500000)
    THEN [code |-> RecommendationCode.ESCALATE_SENIOR,
          text |-> "Escalate to senior adjuster"]
    ELSE [code |-> RecommendationCode.MANUAL_REVIEW,
          text |-> "Manual review recommended"]

\* determineRecommendation with the senior escalation requiring both conditions
determineRecommendation_SeniorAnd(confidence, total_max, ps, flags) ==
    IF Includes(flags, RiskFlag.STRUCTURAL_DAMAGE)
    THEN [code |-> RecommendationCode.ESCALATE_STRUCTURAL,
          text |-> "Escalate for structural review"]
    ELSE IF /\ confidence >= 80
            /\ Le(total_max, 300000)
            /\ ~Includes(flags, RiskFlag.HIGH_EXPOSURE)
            /\ ~Includes(flags, RiskFlag.LOW_CONFIDENCE)
    THEN [code |-> RecommendationCode.FAST_TRACK_REVIEW,
          text |-> "Fast-track approval recommended"]
    ELSE IF confidence < 60 /\ Gt(total_max, 500000)
    THEN [code |-> RecommendationCode.ESCALATE_SENIOR,
          text |-> "Escalate to senior adjuster"]
    ELSE [code |-> RecommendationCode.MANUAL_REVIEW,
          text |-> "Manual review recommended"]

\* determineRecommendation with the senior escalation as the fallback
determineRecommendation_SeniorDefault(confidence, total_max, ps, flags) ==
    IF Includes(flags, RiskFlag.STRUCTURAL_DAMAGE)
    THEN [code |-> RecommendationCode.ESCALATE_STRUCTURAL,
          text |-> "Escalate for structural review"]
    ELSE IF /\ confidence >= 80
            /\ Le(total_max, 300000)
            /\ ~Includes(flags, RiskFlag.HIGH_EXPOSURE)
            /\ ~Includes(flags, RiskFlag.LOW_CONFIDENCE)
    THEN [code |-> RecommendationCode.FAST_TRACK_REVIEW,
          text |-> "Fast-track approval recommended"]
    ELSE [code |-> RecommendationCode.ESCALATE_SENIOR,
          text |-> "Escalate to senior adjuster"]

determineRecommendation(confidence, total_max, ps, flags) ==
    IF Includes(flags, RiskFlag.STRUCTURAL_DAMAGE)
    THEN [code |-> RecommendationCode.ESCALATE_STRUCTURAL,
          text |-> "Escalate for structural review"]
    ELSE IF /\ confidence >= FAST_TRACK_CONFIDENCE_THRESHOLD
            /\ Le(total_max, FAST_TRACK_MAX_COST)
            /\ ~Includes(flags, RiskFlag.HIGH_EXPOSURE)
            /\ ~Includes(flags, RiskFlag.LOW_CONFIDENCE)
    THEN [code |-> RecommendationCode.FAST_TRACK_REVIEW,
          text |-> "Fast-track approval recommended"]
    ELSE IF \/ confidence < ESCALATION_MIN_CONFIDENCE
            \/ Gt(total_max, ESCALATION_HIGH_EXPOSURE_THRESHOLD)
    THEN [code |-> RecommendationCode.ESCALATE_SENIOR,
          text |-> "Escalate to senior adjuster"]
    ELSE [code |-> RecommendationCode.MANUAL_REVIEW,
          text |-> "Manual review recommended"]

RECURSIVE estTotal(_, _)
estTotal(ps, n) ==
    IF n = 0 THEN Num(0) ELSE Plus(estTotal(ps, n - 1), ps[n].estimated_cost_max)

\* calculateFraudRiskScore with the fragmentation rule at five parts
calculateFraudRiskScore_FragmentedAtFive(ps, ctx) ==
    LET mismatch ==
            IF \E i \in 1..Len(ps) :
                   /\ ps[i].severity = PartSeverity.MINOR
                   /\ Gt(ps[i].estimated_cost_max, 100000)
            THEN 3 ELSE 0
        fragmented == IF Len(ps) >= 5 THEN 2 ELSE 0
        historical ==
            IF ctx.historicalData = Undefined THEN 0
            ELSE LET h == ctx.historicalData[1]
                     est == estTotal(ps, Len(ps))
                 IN  IF /\ IsNumber(est)
                        /\ Abs(h.averageFinalCost - est[1]) * 100 > h.standardDeviation * 2
                     THEN 4 ELSE 0
    IN  Min(10, mismatch + fragmented + historical)

\* the score in tenths
calculateFraudRiskScore(ps, ctx) ==
    LET mismatch ==
            IF \E i \in 1..Len(ps) :
                   /\ ps[i].severity = PartSeverity.MINOR
                   /\ Gt(ps[i].estimated_cost_max, 100000)
            THEN 3 ELSE 0
        fragmented == IF Len(ps) > 5 THEN 2 ELSE 0
        historical ==
            IF ctx.historicalData = Undefined THEN 0
            ELSE LET h == ctx.historicalData[1]
                     est == estTotal(ps, Len(ps))
                 IN  IF /\ IsNumber(est)
                        /\ Abs(h.averageFinalCost - est[1]) * 100 > h.standardDeviation * 2
                     THEN 4 ELSE 0
    IN  Min(10, mismatch + fragmented + historical)

\* generateImageQualityCheck without the note for an empty parts list
generateImageQualityCheck_NoEmptyNote(ps) ==
    IF \E i \in 1..Len(ps) : ps[i].confidence < 600
    THEN <<"One or more parts have low model confidence; request clearer photos or additional angles.">>
    ELSE <<>>

generateImageQualityCheck(ps) ==
    (IF \E i \in 1..Len(ps) : ps[i].confidence < 600
     THEN <<"One or more parts have low model confidence; request clearer photos or additional angles.">>
     ELSE <<>>)
    \o
    (IF Len(ps) = 0
     THEN <<"No parts detected; verify that photos clearly show the vehicle.">>
     ELSE <<>>)

\* the SIU note, with fraud_risk_score.toFixed(2) for a score in tenths
fraudNote(score) ==
    CASE score = 6 ->
             "Elevated fraud risk score (0.60): document justification and consider SIU review."
      [] score = 7 ->
             "Elevated fraud risk score (0.70): document justification and consider SIU review."
      [] score = 8 ->
             "Elevated fraud risk score (0.80): document justification and consider SIU review."
      [] score = 9 ->
             "Elevated fraud risk score (0.90): document justification and consider SIU review."
      [] OTHER ->
             "Elevated fraud risk score (1.00): document justification and consider SIU review."

\* generateComplianceNotes as an else-if chain: at most one note
generateComplianceNotes_ElseIf(confidence, total_max, flags, fraud_risk_score) ==
    IF confidence < 50
    THEN <<"Low model confidence: full manual verification required before payout.">>
    ELSE IF Gt(total_max, 1000000)
    THEN <<"High value claim: ensure enhanced approval workflow and compliance review.">>
    ELSE IF Includes(flags, RiskFlag.STRUCTURAL_DAMAGE)
    THEN <<"Structural damage indicated: ensure safety standards and OEM repair guidelines are followed.">>
    ELSE IF fraud_risk_score # Undefined /\ fraud_risk_score[1] > 5
    THEN <<fraudNote(fraud_risk_score[1])>>
    ELSE <<>>

generateComplianceNotes(confidence, total_max, flags, fraud_risk_score) ==
    (IF confidence < 50
     THEN <<"Low model confidence: full manual verification required before payout.">>
     ELSE <<>>)
    \o
    (IF Gt(total_max, 1000000)
     THEN <<"High value claim: ensure enhanced approval workflow and compliance review.">>
     ELSE <<>>)
    \o
    (IF Includes(flags, RiskFlag.STRUCTURAL_DAMAGE)
     THEN <<"Structural damage indicated: ensure safety standards and OEM repair guidelines are followed.">>
     ELSE <<>>)
    \o
    (IF fraud_risk_score # Undefined /\ fraud_risk_score[1] > 5
     THEN <<fraudNote(fraud_risk_score[1])>>
     ELSE <<>>)

\* determineRouting with the fast-track case falling through to the base routing
determineRouting_FastTrackBase(code) ==
    CASE code = RecommendationCode.ESCALATE_STRUCTURAL ->
             [assignTo |-> "structural_engineer", priority |-> 5,
              estimatedTimeMinutes |-> 120,
              requiredActions |-> <<"Structural assessment", "Safety inspection",
                                    "Detailed report">>]
      [] code = RecommendationCode.ESCALATE_SENIOR ->
             [assignTo |-> "senior_adjuster", priority |-> 4,
              estimatedTimeMinutes |-> 60,
              requiredActions |-> <<"Comprehensive review", "Cost validation",
                                    "Approval decision">>]
      [] OTHER ->
             [assignTo |-> "agent", priority |-> 3, estimatedTimeMinutes |-> 30,
              requiredActions |-> <<"Initial review", "Cost confirmation">>]

determineRouting(code) ==
    LET baseRouting ==
            [assignTo |-> "agent", priority |-> 3, estimatedTimeMinutes |-> 30,
             requiredActions |-> <<"Initial review", "Cost confirmation">>]
    IN  CASE code = RecommendationCode.FAST_TRACK_REVIEW ->
                 [baseRouting EXCEPT !.priority = 2, !.estimatedTimeMinutes = 15,
                     !.requiredActions = <<"Quick validation", "Fast-track approval">>]
          [] code = RecommendationCode.ESCALATE_STRUCTURAL ->
                 [assignTo |-> "structural_engineer", priority |-> 5,
                  estimatedTimeMinutes |-> 120,
                  requiredActions |-> <<"Structural assessment", "Safety inspection",
                                        "Detailed report">>]
          [] code = RecommendationCode.ESCALATE_SENIOR ->
                 [assignTo |-> "senior_adjuster", priority |-> 4,
                  estimatedTimeMinutes |-> 60,
                  requiredActions |-> <<"Comprehensive review", "Cost validation",
                                        "Approval decision">>]
          [] OTHER -> baseRouting

\* the _meta of the assessment; now is the clock value new Date() returns
assessmentMeta(ctx, now) ==
    [model_version |-> MODEL_VERSION,
     processing_time_ms |-> 25,
     timestamp |-> now,
     batch_id |-> IF ctx.userId # Undefined /\ ctx.userId[1] # ""
                  THEN <<"user:", ctx.userId[1]>> ELSE Undefined]

\* applyPolicy keeping the flags of the previous call in module state
applyPolicy_RemembersFlags(ps, ctx) ==
    LET totals == calculateTotals(ps)
        overall_confidence == calculateOverallConfidence(ps)
        flags ==
            (IF calls = <<>> THEN <<>>
             ELSE calls[Len(calls)].decision.assessment.flags)
            \o collectRiskFlags(ps, totals.total_max, overall_confidence, ctx)
        recommendation ==
            determineRecommendation(overall_confidence, totals.total_max, ps, flags)
        fraud_risk_score ==
            IF ENABLE_FRAUD_DETECTION THEN Num(calculateFraudRiskScore(ps, ctx))
            ELSE Undefined
    IN  [assessment |->
             [damaged_parts |-> ps,
              total_min |-> totals.total_min,
              total_max |-> totals.total_max,
              overall_confidence |-> overall_confidence,
              recommendation |-> recommendation,
              flags |-> flags,
              image_quality |-> generateImageQualityCheck(ps),
              fraud_risk_score |-> fraud_risk_score],
         routingInstructions |-> determineRouting(recommendation.code),
         complianceNotes |->
             generateComplianceNotes(overall_confidence, totals.total_max, flags,
                                     fraud_risk_score)]

\* applyPolicy routing a fraud score above 0.7 to the SIU
applyPolicy_RoutesFraudToSiu(ps, ctx) ==
    LET totals == calculateTotals(ps)
        overall_confidence == calculateOverallConfidence(ps)
        flags == collectRiskFlags(ps, totals.total_max, overall_confidence, ctx)
        recommendation ==
            determineRecommendation(overall_confidence, totals.total_max, ps, flags)
        fraud_risk_score ==
            IF ENABLE_FRAUD_DETECTION THEN Num(calculateFraudRiskScore(ps, ctx))
            ELSE Undefined
    IN  [assessment |->
             [damaged_parts |-> ps,
              total_min |-> totals.total_min,
              total_max |-> totals.total_max,
              overall_confidence |-> overall_confidence,
              recommendation |-> recommendation,
              flags |-> flags,
              image_quality |-> generateImageQualityCheck(ps),
              fraud_risk_score |-> fraud_risk_score],
         routingInstructions |->
             IF fraud_risk_score # Undefined /\ fraud_risk_score[1] > 7
             THEN [assignTo |-> "siu", priority |-> 5, estimatedTimeMinutes |-> 120,
                   requiredActions |-> <<"Fraud investigation">>]
             ELSE determineRouting(recommendation.code),
         complianceNotes |->
             generateComplianceNotes(overall_confidence, totals.total_max, flags,
                                     fraud_risk_score)]

applyPolicy(ps, ctx) ==
    LET totals == calculateTotals(ps)
        overall_confidence == calculateOverallConfidence(ps)
        flags == collectRiskFlags(ps, totals.total_max, overall_confidence, ctx)
        recommendation ==
            determineRecommendation(overall_confidence, totals.total_max, ps, flags)
        fraud_risk_score ==
            IF ENABLE_FRAUD_DETECTION THEN Num(calculateFraudRiskScore(ps, ctx))
            ELSE Undefined
    IN  [assessment |->
             [damaged_parts |-> ps,
              total_min |-> totals.total_min,
              total_max |-> totals.total_max,
              overall_confidence |-> overall_confidence,
              recommendation |-> recommendation,
              flags |-> flags,
              image_quality |-> generateImageQualityCheck(ps),
              fraud_risk_score |-> fraud_risk_score],
         routingInstructions |-> determineRouting(recommendation.code),
         complianceNotes |->
             generateComplianceNotes(overall_confidence, totals.total_max, flags,
                                     fraud_risk_score)]

\* validateAssessment with the escalation threshold as the lower confidence
\* bound
validateAssessment_RejectsLowConfidence(assessment) ==
    LET errors ==
            (IF Len(assessment.damaged_parts) = 0
             THEN <<"Assessment must include at least one damaged part.">>
             ELSE <<>>)
            \o
            (IF /\ IsNumber(assessment.total_min) /\ IsNumber(assessment.total_max)
                /\ assessment.total_min[1] > assessment.total_max[1]
             THEN <<"Minimum cost cannot exceed maximum cost.">>
             ELSE <<>>)
            \o
            (IF assessment.overall_confidence < 60 \/ assessment.overall_confidence > 100
             THEN <<"Confidence must be between 0 and 1.">>
             ELSE <<>>)
            \o
            (IF assessment.recommendation.code = ""
             THEN <<"Assessment must include a recommendation code.">>
             ELSE <<>>)
    IN  [valid |-> Len(errors) = 0, errors |-> errors]

\* a NaN total makes the comparison false
validateAssessment(assessment) ==
    LET errors ==
            (IF Len(assessment.damaged_parts) = 0
             THEN <<"Assessment must include at least one damaged part.">>
             ELSE <<>>)
            \o
            (IF /\ IsNumber(assessment.total_min) /\ IsNumber(assessment.total_max)
                /\ assessment.total_min[1] > assessment.total_max[1]
             THEN <<"Minimum cost cannot exceed maximum cost.">>
             ELSE <<>>)
            \o
            (IF assessment.overall_confidence < 0 \/ assessment.overall_confidence > 100
             THEN <<"Confidence must be between 0 and 1.">>
             ELSE <<>>)
            \o
            (IF assessment.recommendation.code = ""
             THEN <<"Assessment must include a recommendation code.">>
             ELSE <<>>)
    IN  [valid |-> Len(errors) = 0, errors |-> errors]

requiresSeniorApproval(assessment) ==
    \/ /\ IsNumber(assessment.total_max)
       /\ assessment.total_max[1] >= ESCALATION_HIGH_EXPOSURE_THRESHOLD
    \/ assessment.overall_confidence < ESCALATION_MIN_CONFIDENCE
    \/ Includes(assessment.flags, RiskFlag.STRUCTURAL_DAMAGE)
    \/ /\ assessment.fraud_risk_score # Undefined
       /\ assessment.fraud_risk_score[1] > 7

\* claim is Undefined when the caller passes none; injuries is truthy when
\* it is true or a non-empty string
shouldAutoEscalate(assessment, claim) ==
    IF /\ claim # Undefined
       /\ "injuries" \in DOMAIN claim[1]
       /\ claim[1].injuries \notin {FALSE, ""}
    THEN TRUE
    ELSE IF Includes(assessment.flags, RiskFlag.STRUCTURAL_DAMAGE) THEN TRUE
    ELSE IF /\ assessment.fraud_risk_score # Undefined
            /\ assessment.fraud_risk_score[1] > 7
    THEN TRUE
    ELSE FALSE

----------------------------------------------------------------------------
(* Inputs *)

MaxParts == 6
MaxDamageTypes == 2

Part(id, sev, conf, cmin, cmax, dts) ==
    [part_id |-> id, severity |-> sev, confidence |-> conf,
     estimated_cost_min |-> cmin, estimated_cost_max |-> cmax, damage_types |-> dts]

\* the parts a parts list is drawn from
PartPool ==
    << Part("rear_bumper", "moderate", 850, Undefined, Undefined, <<>>),
       Part("rear_bumper", "moderate", 850, Num(40000), Num(60000), <<>>),
       Part("frame", "moderate", 900, Num(250000), Num(300000), <<>>),
       Part("trunk_lid", "structural", 500, Num(100000), Num(150000), <<>>),
       Part("rear_left_taillight", "minor", 500, Num(100000), Num(150000), <<>>),
       Part("left_quarter_panel", "severe", 800, Num(250000), Num(300000), <<>>),
       Part("hood", "crushed", 1200, Num(60000), Num(40000), <<>>),
       Part("trunk_lid", "replace", 600, Num(400000), Num(520000), <<>>),
       Part("rear_right_taillight", "minor", 950, Num(5000), Num(8000), <<>>),
       Part("left_quarter_panel", "moderate", -100, Num(0), Num(1), <<>>),
       Part("rear_bumper", "minor", 596, Num(20000), Num(30000), <<>>) >>

\* the index lists of length n over lo..hi in non-decreasing order: the
\* engine's aggregates do not depend on the order of the parts
RECURSIVE IndexLists(_, _, _)
IndexLists(n, lo, hi) ==
    IF n = 0 THEN {<<>>}
    ELSE UNION {{<<i>> \o s : s \in IndexLists(n - 1, i, hi)} : i \in lo..hi}

PartLists ==
    UNION {{[k \in 1..n |-> PartPool[l[k]]] : l \in IndexLists(n, 1, Len(PartPool))}
           : n \in 0..MaxParts}

Historical(avg, sd) ==
    <<[similarClaimsCount |-> 10, averageFinalCost |-> avg, standardDeviation |-> sd]>>

\* a Claim carrying its photos under the index signature of the type; photos
\* is the number of photos
Claim(photos) ==
    <<[id |-> "CLM-1", policy_number |-> "POL-1",
       incident_description |-> "rear-end collision", photos |-> photos]>>

PolicyContext(historicalData, claim, userId) ==
    [historicalData |-> historicalData, claim |-> claim, userId |-> userId]

\* the context of a call without a context argument: the default {}
EmptyContext == PolicyContext(Undefined, Undefined, Undefined)

\* standardDeviation is in hundredths: 40 is 0.4, 10000000 is 100000 cents
Contexts ==
    { EmptyContext,
      PolicyContext(Historical(60000, 40), Claim(3), <<"u1">>),
      PolicyContext(Historical(60000, 20), Claim(2), Undefined),
      PolicyContext(Historical(300000, 10000000), Undefined, Undefined),
      PolicyContext(Undefined, Claim(2), <<"u1">>) }

DamageTypeNames == <<"scratch", "structural_compromise", "Dent", "rust">>
DamageAreas == <<Undefined, Num(0), Num(50), Num(100)>>

\* every damage type name with every area
DamageTypePool ==
    [k \in 1..(Len(DamageTypeNames) * Len(DamageAreas)) |->
        [type |-> DamageTypeNames[((k - 1) \div Len(DamageAreas)) + 1],
         area_percentage |-> DamageAreas[((k - 1) % Len(DamageAreas)) + 1]]]

DamageTypeLists ==
    UNION {{[k \in 1..n |-> DamageTypePool[l[k]]]
              : l \in IndexLists(n, 1, Len(DamageTypePool))}
           : n \in 0..MaxDamageTypes}

CostRanges ==
    { <<Undefined, Undefined>>, <<Undefined, Num(60000)>>, <<Num(60000), Num(40000)>>,
      <<Num(5000), Num(8000)>>, <<Num(40000), Num(40000)>>, <<Num(40000), Num(60000)>> }

CostParts ==
    { Part(id, sev, 850, r[1], r[2], dts) :
        id \in {"rear_bumper", "rear_left_taillight", "frame", "hood"},
        sev \in {"minor", "moderate", "structural", "SEVERE", "crushed"},
        r \in CostRanges,
        dts \in DamageTypeLists }

RiskFlagLists ==
    { f1 \o f2 \o f3 \o f4 :
        f1 \in {<<>>, <<RiskFlag.STRUCTURAL_DAMAGE>>},
        f2 \in {<<>>, <<RiskFlag.HIGH_EXPOSURE>>},
        f3 \in {<<>>, <<RiskFlag.LOW_CONFIDENCE>>},
        f4 \in {<<>>, <<RiskFlag.INCONSISTENT_DAMAGE>>} }

RecConfidences == {0, 59, 60, 79, 80, 100}
RecTotals == {NaN, Num(0), Num(300000), Num(300001), Num(500000), Num(500001)}

\* the parts computeTotalsFromParts is applied to: supplied ranges down to
\* single cents, and parts whose range is derived
TotalPartPool ==
    << Part("rear_bumper", "moderate", 850, Undefined, Undefined, <<>>),
       Part("rear_bumper", "minor", 850, Num(5), Num(8), <<>>),
       Part("trunk_lid", "minor", 850, Num(15), Num(15), <<>>),
       Part("rear_left_taillight", "minor", 850, Undefined, Undefined,
            <<[type |-> "scratch", area_percentage |-> Undefined]>>),
       Part("trunk_lid", "severe", 850, Num(40000), Num(60000), <<>>),
       Part("hood", "crushed", 850, Undefined, Undefined,
            <<[type |-> "Dent", area_percentage |-> Num(50)]>>),
       Part("frame", "structural", 850, Undefined, Num(60000), <<>>),
       Part("rear_right_taillight", "minor", 850, Num(1), Num(1), <<>>) >>

MaxTotalParts == 3

TotalPartLists ==
    UNION {{[k \in 1..n |-> TotalPartPool[l[k]]]
              : l \in IndexLists(n, 1, Len(TotalPartPool))}
           : n \in 0..MaxTotalParts}

\* the inputs of the repeated applyPolicy calls
CallPartLists == { <<>>, <<PartPool[2]>>, <<PartPool[4], PartPool[8]>> }
CallContexts == { EmptyContext, PolicyContext(Historical(60000, 40), Claim(3), <<"u1">>) }
MaxCalls == 3
MaxClock == 2

NoDecision == [none |-> TRUE]
NoValidation == [none |-> TRUE]
NoTotals == [none |-> TRUE]
NoRange == [none |-> TRUE]
NoPart == [none |-> TRUE]

----------------------------------------------------------------------------
(* The claim store (useClaimStore). A nullable field holds None or <<v>>.   *)
(* The id and the timestamp of an audit entry, both read from the clock,    *)
(* are left out of the entry.                                               *)

None == <<>>

\* confidence in thousandths, costs in cents
STORE_MOCK_ASSESSMENT ==
    [CONFIDENCE |-> 850, PART_COST_MIN |-> 50000, PART_COST_MAX |-> 75000,
     MODEL_VERSION |-> "store-mock-v1"]

STORE_MOCK_ASSESSMENT_DELAY_MS == 1000

initialState ==
    [claim |-> None, photos |-> <<>>, assessment |-> None,
     isRunning |-> FALSE, isSaving |-> FALSE, status |-> None, error |-> None,
     auditLog |-> <<>>, history |-> <<>>, historyIndex |-> -1,
     lastSaved |-> None, isDirty |-> FALSE]

\* array[index] is a part: index is 0-based
HasPartAt(ps, index) == index + 1 \in 1..Len(ps)

\* array.splice(index, 1)
Splice(ps, index) ==
    [k \in 1..(Len(ps) - 1) |-> IF k < index + 1 THEN ps[k] ELSE ps[k + 1]]

addLog(state, action_type, description, metadata) ==
    [state EXCEPT !.auditLog =
        Append(@, [claim_id |-> IF state.claim = None THEN "" ELSE state.claim[1].id,
                   user_id |-> "user",
                   action_type |-> action_type,
                   description |-> description,
                   metadata |-> metadata])]

setClaim(state, claim) ==
    [state EXCEPT !.claim = claim, !.isDirty = TRUE]

setAssessment(state, assessment) ==
    [state EXCEPT !.assessment = assessment, !.isDirty = TRUE]

\* runAssessment up to its await
runAssessment(state) ==
    [state EXCEPT !.isRunning = TRUE, !.error = None,
                  !.status = <<"Running mock assessment...">>]

mockParts ==
    << [part_id |-> VehiclePart.REAR_BUMPER,
        part_label |-> "Rear Bumper",
        severity |-> PartSeverity.MODERATE,
        confidence |-> STORE_MOCK_ASSESSMENT.CONFIDENCE,
        estimated_cost_min |-> Num(STORE_MOCK_ASSESSMENT.PART_COST_MIN),
        estimated_cost_max |-> Num(STORE_MOCK_ASSESSMENT.PART_COST_MAX),
        repair_action |-> "replace"] >>

\* overall_confidence in hundredths
mockAssessment ==
    [damaged_parts |-> mockParts,
     total_min |-> Num(STORE_MOCK_ASSESSMENT.PART_COST_MIN),
     total_max |-> Num(STORE_MOCK_ASSESSMENT.PART_COST_MAX),
     overall_confidence |-> STORE_MOCK_ASSESSMENT.CONFIDENCE \div 10,
     recommendation |-> [code |-> RecommendationCode.MANUAL_REVIEW,
                         text |-> "Review needed", priority |-> "medium"],
     flags |-> <<>>,
     image_quality |-> <<"Mock: not evaluated">>,
     cost_breakdown |-> <<[label |-> "Rear Bumper",
                           details |-> <<"Severity: moderate">>]>>,
     _meta |-> [model_version |-> STORE_MOCK_ASSESSMENT.MODEL_VERSION,
                processing_time_ms |-> STORE_MOCK_ASSESSMENT_DELAY_MS]]

\* runAssessment after its timer resolved
runAssessmentResumed(state) ==
    addLog([state EXCEPT !.assessment = <<mockAssessment>>,
                         !.isRunning = FALSE,
                         !.isDirty = TRUE,
                         !.status = <<"Mock assessment complete">>],
           "assessment_run", <<"AI assessment completed (mock)">>, Undefined)

overridePart(state, index, updated, notes) ==
    LET afterSet ==
            IF state.assessment = None THEN state
            ELSE IF ~HasPartAt(state.assessment[1].damaged_parts, index) THEN state
            ELSE [state EXCEPT
                    !.assessment = <<[@[1] EXCEPT !.damaged_parts[index + 1] = updated]>>,
                    !.isDirty = TRUE]
    IN addLog(afterSet, "override", <<"Part", index, "overridden">>, <<[notes |-> notes]>>)

addPart(state, part) ==
    LET afterSet ==
            IF state.assessment = None THEN state
            ELSE [state EXCEPT
                    !.assessment = <<[@[1] EXCEPT !.damaged_parts = Append(@, part)]>>,
                    !.isDirty = TRUE]
    IN addLog(afterSet, "add_part", <<"New part added">>, Undefined)

removePart(state, index) ==
    LET afterSet ==
            IF state.assessment = None THEN state
            ELSE IF ~HasPartAt(state.assessment[1].damaged_parts, index) THEN state
            ELSE [state EXCEPT
                    !.assessment = <<[@[1] EXCEPT !.damaged_parts = Splice(@, index)]>>,
                    !.isDirty = TRUE]
    IN addLog(afterSet, "remove_part", <<"Part", index, "removed">>, Undefined)

----------------------------------------------------------------------------
(* The workbench page (Home). Each handler is a function of the values the  *)
(* component rendered with; the timestamp prefix of a log line is left out. *)

initialPage ==
    [claim |-> None, photos |-> <<>>, assessment |-> None, actions |-> <<>>,
     step |-> 1, policyError |-> None, uploadHint |-> None, status |-> None,
     isRunning |-> FALSE, allowNewClaim |-> FALSE, history |-> <<>>]

\* partial.policyNumber.trim().toUpperCase() on the policy numbers drawn
TrimToUpperCase(policyNumber) ==
    CASE policyNumber = " pol-7 " -> "POL-7"
      [] policyNumber = "POL-8" -> "POL-8"
      [] policyNumber = "abc-1" -> "ABC-1"
      [] policyNumber = " Pol7" -> "POL7"

\* normalized.startsWith("POL-") on the normalized numbers
StartsWithPol(normalized) == normalized \in {"POL-7", "POL-8"}

snapshot(p) ==
    [p EXCEPT !.history =
        Append(@, [claim |-> p.claim, photos |-> p.photos,
                   assessment |-> p.assessment, actions |-> p.actions,
                   step |-> p.step])]

log(p, message) == [p EXCEPT !.actions = Append(@, message)]

handleUndo(p) ==
    IF Len(p.history) = 0 THEN p
    ELSE LET last == p.history[Len(p.history)]
         IN [p EXCEPT !.claim = last.claim,
                      !.photos = last.photos,
                      !.assessment = last.assessment,
                      !.actions = last.actions,
                      !.step = last.step,
                      !.status = <<"Last change undone.">>,
                      !.allowNewClaim = FALSE,
                      !.uploadHint = None,
                      !.policyError = None,
                      !.history = SubSeq(@, 1, Len(@) - 1)]

\* the id of the new claim is random: it is left out of the claim
handleClaimSubmit(p, partial) ==
    LET normalized == TrimToUpperCase(partial.policyNumber)
    IN IF ~StartsWithPol(normalized)
       THEN log([p EXCEPT !.policyError = <<"Policy # must start with \"POL-\".">>],
                <<"[SYSTEM] Invalid policy number", partial.policyNumber, "rejected.">>)
       ELSE log([snapshot(p) EXCEPT
                    !.claim = <<[partial EXCEPT !.policyNumber = normalized]>>,
                    !.policyError = None,
                    !.step = 2,
                    !.uploadHint = <<"Please upload damage photos to proceed.">>],
                <<"Claim context set for", normalized>>)

handlePhotosChange(p, newPhotos) ==
    IF p.claim = None THEN p
    ELSE LET q == [snapshot(p) EXCEPT !.photos = newPhotos, !.uploadHint = None]
         IN IF Len(newPhotos) >= 2
            THEN log([q EXCEPT !.step = 3], <<"Uploaded", Len(newPhotos), "photos">>)
            ELSE [q EXCEPT !.step = 2]

\* handleRunAssessment up to its setTimeout; Scheduled says a timer was set
handleRunAssessmentScheduled(p) == ~(p.claim = None \/ Len(p.photos) < 2)

handleRunAssessment(p) ==
    IF ~handleRunAssessmentScheduled(p) THEN p
    ELSE log([snapshot(p) EXCEPT !.isRunning = TRUE,
                                !.status = <<"Running AI assessment...">>],
             <<"AI assessment started">>)

\* confidence in thousandths, overall_confidence in hundredths
pageMockAssessment ==
    [damaged_parts |->
        << [part_id |-> VehiclePart.REAR_BUMPER,
            part_label |-> "Rear Bumper",
            severity |-> PartSeverity.MODERATE,
            confidence |-> 850,
            estimated_cost_min |-> Num(50000),
            estimated_cost_max |-> Num(75000),
            repair_action |-> "replace"] >>,
     total_min |-> Num(50000),
     total_max |-> Num(75000),
     overall_confidence |-> 85,
     recommendation |-> [code |-> RecommendationCode.FAST_TRACK_REVIEW,
                         text |-> "Approve - high confidence, low exposure"],
     flags |-> <<>>,
     image_quality |-> <<"Good lighting", "Multiple angles provided">>,
     cost_breakdown |-> <<>>,
     _meta |-> [model_version |-> "mock-v1", processing_time_ms |-> 1500]]

\* the callback handleRunAssessment hands to setTimeout
handleRunAssessmentTimeout(p) ==
    log([p EXCEPT !.assessment = <<pageMockAssessment>>,
                  !.isRunning = FALSE,
                  !.step = 4,
                  !.status = <<"Assessment complete">>],
        <<"AI assessment completed">>)

onApprove(p) ==
    [log(snapshot(p), <<"Claim approved">>) EXCEPT
        !.allowNewClaim = TRUE,
        !.status = <<"Claim approved successfully">>]

onRequestPhotos(p) ==
    [log(snapshot(p), <<"Additional photos requested">>) EXCEPT
        !.step = 2,
        !.uploadHint = <<"Please upload additional photos for better assessment.">>]

onEscalate(p) ==
    [log(snapshot(p), <<"Claim escalated">>) EXCEPT
        !.allowNewClaim = TRUE,
        !.status = <<"Claim escalated for manual review">>]

\* newParts.reduce((sum, p) => sum + p.estimated_cost_min, 0)
RECURSIVE reduceCostMin(_)
reduceCostMin(ps) ==
    IF ps = <<>> THEN Num(0)
    ELSE Plus(reduceCostMin(SubSeq(ps, 1, Len(ps) - 1)), ps[Len(ps)].estimated_cost_min)

\* newParts.reduce((sum, p) => sum + p.estimated_cost_max, 0)
RECURSIVE reduceCostMax(_)
reduceCostMax(ps) ==
    IF ps = <<>> THEN Num(0)
    ELSE Plus(reduceCostMax(SubSeq(ps, 1, Len(ps) - 1)), ps[Len(ps)].estimated_cost_max)

\* index is the index of a part: the panel edits a part it shows
onOverride(p, index, updated) ==
    IF p.assessment = None THEN p
    ELSE LET newParts == [p.assessment[1].damaged_parts EXCEPT ![index + 1] = updated]
             newAssessment == [p.assessment[1] EXCEPT
                                  !.damaged_parts = newParts,
                                  !.total_min = reduceCostMin(newParts),
                                  !.total_max = reduceCostMax(newParts)]
         IN log([snapshot(p) EXCEPT !.assessment = <<newAssessment>>],
                <<"Override applied to part", index + 1>>)

onAddPart(p, part) ==
    IF p.assessment = None THEN p
    ELSE log([snapshot(p) EXCEPT
                 !.assessment = <<[@[1] EXCEPT !.damaged_parts = Append(@, part)]>>],
             <<"New part added">>)

\* damaged_parts.filter((_, i) => i !== index)
FilterIndex(ps, index) ==
    IF HasPartAt(ps, index) THEN Splice(ps, index) ELSE ps

onRemovePart(p, index) ==
    IF p.assessment = None THEN p
    ELSE log([snapshot(p) EXCEPT
                 !.assessment = <<[@[1] EXCEPT !.damaged_parts = FilterIndex(@, index)]>>],
             <<"Part", index + 1, "removed">>)

handleStartNewClaim(p) ==
    log([p EXCEPT !.claim = None, !.photos = <<>>, !.assessment = None,
                  !.actions = <<>>, !.step = 1, !.policyError = None,
                  !.uploadHint = None, !.status = None,
                  !.allowNewClaim = FALSE, !.history = <<>>],
        <<"New claim started">>)

NoCall == [op |-> "none"]
StoreIdle == store = initialState /\ storeCall = NoCall /\ pendingRuns = 0
PageIdle == page = initialPage /\ pageCall = NoCall /\ pendingTimers = 0

----------------------------------------------------------------------------
(* The policy engine: one applyPolicy call on a drawn input *)

PolicyIdle ==
    /\ parts = <<>> /\ context = EmptyContext
    /\ pc = "off" /\ decision = NoDecision /\ validation = NoValidation
CostIdle == costPart = NoPart /\ costPc = "off" /\ costRange = NoRange
TotIdle == totParts = <<>> /\ totPc = "off" /\ totResult = NoTotals
CallIdle == calls = <<>> /\ clock = 0
RecIdle ==
    /\ recConfidence = 0 /\ recTotalMax = NaN /\ recFlags = <<>>
    /\ recPc = "off" /\ recResult = NoDecision

Init ==
    /\ parts \in PartLists \cup {Null}
    /\ context \in Contexts
    /\ pc = "idle"
    /\ decision = NoDecision
    /\ validation = NoValidation
    /\ CostIdle
    /\ RecIdle
    /\ TotIdle
    /\ CallIdle
    /\ StoreIdle
    /\ PageIdle

\* applyPolicy treating a null parts argument as an empty list
ApplyPolicy_CoercesNull ==
    /\ pc = "idle"
    /\ pc' = "done"
    /\ decision' = applyPolicy(IF parts = Null THEN <<>> ELSE parts, context)
    /\ UNCHANGED <<parts, context, validation, costVars, recVars, totVars, callVars, storeVars, pageVars>>

ApplyPolicy ==
    /\ pc = "idle"
    /\ IF calculateTotalsThrows(parts)
       THEN pc' = "threw" /\ decision' = decision
       ELSE pc' = "done" /\ decision' = applyPolicy(parts, context)
    /\ UNCHANGED <<parts, context, validation, costVars, recVars, totVars, callVars, storeVars, pageVars>>

\* the caller validates the assessment it got
ValidateAssessment ==
    /\ pc = "done"
    /\ validation = NoValidation
    /\ validation' = validateAssessment(decision.assessment)
    /\ UNCHANGED <<parts, context, pc, decision, costVars, recVars, totVars, callVars, storeVars, pageVars>>

Next == ApplyPolicy \/ ValidateAssessment

Spec == Init /\ [][Next]_vars

----------------------------------------------------------------------------
(* The cost estimator: one estimatePartCostRange call on a drawn part *)

InitCost ==
    /\ costPart \in CostParts
    /\ costPc = "idle"
    /\ costRange = NoRange
    /\ PolicyIdle
    /\ RecIdle
    /\ TotIdle
    /\ CallIdle
    /\ StoreIdle
    /\ PageIdle

EstimatePartCostRange ==
    /\ costPc = "idle"
    /\ costRange' = estimatePartCostRange(costPart)
    /\ costPc' = "done"
    /\ UNCHANGED <<costPart, policyVars, recVars, totVars, callVars, storeVars, pageVars>>

NextCost == EstimatePartCostRange

SpecCost == InitCost /\ [][NextCost]_vars

----------------------------------------------------------------------------
(* The recommendation rule: one determineRecommendation call on drawn      *)
(* arguments, the flags being any list the caller may pass                 *)

InitRec ==
    /\ recConfidence \in RecConfidences
    /\ recTotalMax \in RecTotals
    /\ recFlags \in RiskFlagLists
    /\ recPc = "idle"
    /\ recResult = NoDecision
    /\ PolicyIdle
    /\ CostIdle
    /\ TotIdle
    /\ CallIdle
    /\ StoreIdle
    /\ PageIdle

DetermineRecommendation ==
    /\ recPc = "idle"
    /\ recResult' = determineRecommendation(recConfidence, recTotalMax, <<>>, recFlags)
    /\ recPc' = "done"
    /\ UNCHANGED <<recConfidence, recTotalMax, recFlags, policyVars, costVars,
                   totVars, callVars, storeVars, pageVars>>

NextRec == DetermineRecommendation

SpecRec == InitRec /\ [][NextRec]_vars

----------------------------------------------------------------------------
(* The totals of the cost estimator: one computeTotalsFromParts call on a    *)
(* drawn parts list                                                        *)

InitTotals ==
    /\ totParts \in TotalPartLists
    /\ totPc = "idle"
    /\ totResult = NoTotals
    /\ PolicyIdle
    /\ CostIdle
    /\ RecIdle
    /\ CallIdle
    /\ StoreIdle
    /\ PageIdle

ComputeTotalsFromParts ==
    /\ totPc = "idle"
    /\ totResult' = computeTotalsFromParts(totParts)
    /\ totPc' = "done"
    /\ UNCHANGED <<totParts, policyVars, costVars, recVars, callVars, storeVars, pageVars>>

NextTotals == ComputeTotalsFromParts

SpecTotals == InitTotals /\ [][NextTotals]_vars

----------------------------------------------------------------------------
(* Repeated applyPolicy calls: each call draws its arguments, reads the     *)
(* clock for its timestamp and is recorded with its result; the clock       *)
(* advances between calls                                                  *)

InitCalls ==
    /\ calls = <<>>
    /\ clock = 0
    /\ PolicyIdle
    /\ CostIdle
    /\ RecIdle
    /\ TotIdle
    /\ StoreIdle
    /\ PageIdle

CallApplyPolicy ==
    /\ Len(calls) < MaxCalls
    /\ \E ps \in CallPartLists, ctx \in CallContexts :
           calls' = Append(calls,
                           [parts |-> ps, context |-> ctx,
                            decision |-> applyPolicy(ps, ctx),
                            meta |-> assessmentMeta(ctx, clock)])
    /\ UNCHANGED <<clock, policyVars, costVars, recVars, totVars, storeVars, pageVars>>

Tick ==
    /\ clock < MaxClock
    /\ clock' = clock + 1
    /\ UNCHANGED <<calls, policyVars, costVars, recVars, totVars, storeVars, pageVars>>

NextCalls == CallApplyPolicy \/ Tick

SpecCalls == InitCalls /\ [][NextCalls]_vars

----------------------------------------------------------------------------
(* The claim store in use: the store starts in its initial state and its    *)
(* actions are called in any order with drawn arguments                     *)

MaxStoreParts == 2
MaxLog == 3
MaxPendingRuns == 1

StoreParts == {PartPool[2], PartPool[9]}
StoreClaims == {None, Claim(2)}
StoreAssessments ==
    {None} \cup {<<applyPolicy(<<p>>, EmptyContext).assessment>> : p \in StoreParts}
\* the last index has no part in any list
StoreIndices == {0, 1, MaxStoreParts}

StoreCall(op, index) == [op |-> op, index |-> index]

InitStore ==
    /\ store = initialState
    /\ storeCall = NoCall
    /\ pendingRuns = 0
    /\ PolicyIdle
    /\ CostIdle
    /\ RecIdle
    /\ TotIdle
    /\ CallIdle
    /\ PageIdle

SetClaim ==
    /\ \E claim \in StoreClaims : store' = setClaim(store, claim)
    /\ storeCall' = StoreCall("setClaim", Undefined)
    /\ UNCHANGED <<pendingRuns, policyVars, costVars, recVars, totVars, callVars, pageVars>>

SetAssessment ==
    /\ \E assessment \in StoreAssessments : store' = setAssessment(store, assessment)
    /\ storeCall' = StoreCall("setAssessment", Undefined)
    /\ UNCHANGED <<pendingRuns, policyVars, costVars, recVars, totVars, callVars, pageVars>>

RunAssessment ==
    /\ pendingRuns < MaxPendingRuns
    /\ Len(store.auditLog) + pendingRuns < MaxLog
    /\ store' = runAssessment(store)
    /\ pendingRuns' = pendingRuns + 1
    /\ storeCall' = StoreCall("runAssessment", Undefined)
    /\ UNCHANGED <<policyVars, costVars, recVars, totVars, callVars, pageVars>>

RunAssessmentResumed ==
    /\ pendingRuns > 0
    /\ store' = runAssessmentResumed(store)
    /\ pendingRuns' = pendingRuns - 1
    /\ storeCall' = StoreCall("runAssessment:resumed", Undefined)
    /\ UNCHANGED <<policyVars, costVars, recVars, totVars, callVars, pageVars>>

OverridePart ==
    /\ Len(store.auditLog) + pendingRuns < MaxLog
    /\ \E index \in StoreIndices, updated \in StoreParts :
          /\ store' = overridePart(store, index, updated, "checked")
          /\ storeCall' = StoreCall("overridePart", Num(index))
    /\ UNCHANGED <<pendingRuns, policyVars, costVars, recVars, totVars, callVars, pageVars>>

AddPart ==
    /\ Len(store.auditLog) + pendingRuns < MaxLog
    /\ store.assessment # None => Len(store.assessment[1].damaged_parts) < MaxStoreParts
    /\ \E part \in StoreParts : store' = addPart(store, part)
    /\ storeCall' = StoreCall("addPart", Undefined)
    /\ UNCHANGED <<pendingRuns, policyVars, costVars, recVars, totVars, callVars, pageVars>>

RemovePart ==
    /\ Len(store.auditLog) + pendingRuns < MaxLog
    /\ \E index \in StoreIndices :
          /\ store' = removePart(store, index)
          /\ storeCall' = StoreCall("removePart", Num(index))
    /\ UNCHANGED <<pendingRuns, policyVars, costVars, recVars, totVars, callVars, pageVars>>

NextStore ==
    \/ SetClaim
    \/ SetAssessment
    \/ RunAssessment
    \/ RunAssessmentResumed
    \/ OverridePart
    \/ AddPart
    \/ RemovePart

SpecStore == InitStore /\ [][NextStore]_vars

----------------------------------------------------------------------------
(* The workbench page in use: the component starts with its initial values, *)
(* the user runs the handlers the rendered page offers, and a timer set by  *)
(* handleRunAssessment runs its callback at some later moment               *)

MaxHistory == 4
MaxActions == 5

PagePartials == {[policyNumber |-> " pol-7 "], [policyNumber |-> "abc-1"]}
PagePhotoLists == {<<"a.jpg">>, <<"a.jpg", "b.jpg">>}
PageParts == {PartPool[9]}
PageIndices == {0, 1}

\* the handler run and, for handleUndo, the snapshot it restored
PageCall(op, restored) == [op |-> op, restored |-> restored]

\* a handler that takes a snapshot and writes a log line has room for both
PageRoom ==
    /\ Len(page.history) < MaxHistory
    /\ Len(page.actions) + pendingTimers < MaxActions

InitPage ==
    /\ page = initialPage
    /\ pageCall = NoCall
    /\ pendingTimers = 0
    /\ PolicyIdle
    /\ CostIdle
    /\ RecIdle
    /\ TotIdle
    /\ CallIdle
    /\ StoreIdle

HandleClaimSubmit ==
    /\ PageRoom
    /\ \E partial \in PagePartials : page' = handleClaimSubmit(page, partial)
    /\ pageCall' = PageCall("handleClaimSubmit", None)
    /\ UNCHANGED <<pendingTimers, policyVars, costVars, recVars, totVars, callVars, storeVars>>

\* the uploader is disabled while there is no claim
HandlePhotosChange ==
    /\ PageRoom
    /\ page.claim # None
    /\ \E newPhotos \in PagePhotoLists : page' = handlePhotosChange(page, newPhotos)
    /\ pageCall' = PageCall("handlePhotosChange", None)
    /\ UNCHANGED <<pendingTimers, policyVars, costVars, recVars, totVars, callVars, storeVars>>

\* the run button is disabled without a claim, with fewer than two photos
\* and while an assessment is running
HandleRunAssessment ==
    /\ PageRoom
    /\ page.claim # None /\ Len(page.photos) >= 2 /\ ~page.isRunning
    /\ page' = handleRunAssessment(page)
    /\ pendingTimers' =
          IF handleRunAssessmentScheduled(page) THEN pendingTimers + 1 ELSE pendingTimers
    /\ pageCall' = PageCall("handleRunAssessment", None)
    /\ UNCHANGED <<policyVars, costVars, recVars, totVars, callVars, storeVars>>

\* a timer set by handleRunAssessment expires: not a user action
HandleRunAssessmentTimeout ==
    /\ pendingTimers > 0
    /\ page' = handleRunAssessmentTimeout(page)
    /\ pendingTimers' = pendingTimers - 1
    /\ UNCHANGED <<pageCall, policyVars, costVars, recVars, totVars, callVars, storeVars>>

\* the approve button is disabled without an assessment or without a claim
OnApprove ==
    /\ PageRoom
    /\ page.assessment # None /\ page.claim # None
    /\ page' = onApprove(page)
    /\ pageCall' = PageCall("onApprove", None)
    /\ UNCHANGED <<pendingTimers, policyVars, costVars, recVars, totVars, callVars, storeVars>>

OnRequestPhotos ==
    /\ PageRoom
    /\ page.claim # None
    /\ page' = onRequestPhotos(page)
    /\ pageCall' = PageCall("onRequestPhotos", None)
    /\ UNCHANGED <<pendingTimers, policyVars, costVars, recVars, totVars, callVars, storeVars>>

OnEscalate ==
    /\ PageRoom
    /\ page.claim # None
    /\ page' = onEscalate(page)
    /\ pageCall' = PageCall("onEscalate", None)
    /\ UNCHANGED <<pendingTimers, policyVars, costVars, recVars, totVars, callVars, storeVars>>

\* the panel edits a part of the assessment it shows
OnOverride ==
    /\ PageRoom
    /\ page.assessment # None
    /\ \E index \in PageIndices, updated \in PageParts :
          /\ HasPartAt(page.assessment[1].damaged_parts, index)
          /\ page' = onOverride(page, index, updated)
    /\ pageCall' = PageCall("onOverride", None)
    /\ UNCHANGED <<pendingTimers, policyVars, costVars, recVars, totVars, callVars, storeVars>>

OnAddPart ==
    /\ PageRoom
    /\ page.assessment # None
    /\ \E part \in PageParts : page' = onAddPart(page, part)
    /\ pageCall' = PageCall("onAddPart", None)
    /\ UNCHANGED <<pendingTimers, policyVars, costVars, recVars, totVars, callVars, storeVars>>

OnRemovePart ==
    /\ PageRoom
    /\ page.assessment # None
    /\ \E index \in PageIndices : page' = onRemovePart(page, index)
    /\ pageCall' = PageCall("onRemovePart", None)
    /\ UNCHANGED <<pendingTimers, policyVars, costVars, recVars, totVars, callVars, storeVars>>

\* the Undo button is shown while the history is not empty
HandleUndo ==
    /\ Len(page.history) > 0
    /\ page' = handleUndo(page)
    /\ pageCall' = PageCall("handleUndo", <<page.history[Len(page.history)]>>)
    /\ UNCHANGED <<pendingTimers, policyVars, costVars, recVars, totVars, callVars, storeVars>>

\* the Start new claim button is shown while allowNewClaim is set
HandleStartNewClaim ==
    /\ page.allowNewClaim
    /\ page' = handleStartNewClaim(page)
    /\ pageCall' = PageCall("handleStartNewClaim", None)
    /\ UNCHANGED <<pendingTimers, policyVars, costVars, recVars, totVars, callVars, storeVars>>

NextPage ==
    \/ HandleClaimSubmit
    \/ HandlePhotosChange
    \/ HandleRunAssessment
    \/ HandleRunAssessmentTimeout
    \/ OnApprove
    \/ OnRequestPhotos
    \/ OnEscalate
    \/ OnOverride
    \/ OnAddPart
    \/ OnRemovePart
    \/ HandleUndo
    \/ HandleStartNewClaim

SpecPage == InitPage /\ [][NextPage]_vars

----------------------------------------------------------------------------
(* Properties of applyPolicy (Spec) *)

Done == pc = "done"
Assessment == decision.assessment
Code == decision.assessment.recommendation.code

HasStructuralPart ==
    \E i \in 1..Len(parts) :
        parts[i].severity = "structural" \/ parts[i].part_id = "frame"

StructuralRule == Includes(Assessment.flags, "STRUCTURAL_DAMAGE")

FastTrackRule ==
    /\ Assessment.overall_confidence >= 80
    /\ Le(Assessment.total_max, 300000)
    /\ ~Includes(Assessment.flags, "HIGH_EXPOSURE")
    /\ ~Includes(Assessment.flags, "LOW_CONFIDENCE")

SeniorRule ==
    \/ Assessment.overall_confidence < 60
    \/ Gt(Assessment.total_max, ESCALATION_HIGH_EXPOSURE_THRESHOLD)

\* C1: a parts list with a part of severity structural or part_id FRAME is
\* recommended ESCALATE_STRUCTURAL and flagged STRUCTURAL_DAMAGE, whatever the
\* confidences, costs and context are.
C1_StructuralDominance ==
    (Done /\ HasStructuralPart) =>
        /\ Code = "ESCALATE_STRUCTURAL"
        /\ Includes(Assessment.flags, "STRUCTURAL_DAMAGE")

\* a FRAME part of non-structural severity inside the fast-track window
C1_Witness ==
    /\ Done
    /\ \E i \in 1..Len(parts) :
           parts[i].part_id = "frame" /\ parts[i].severity # "structural"
    /\ Assessment.overall_confidence >= 80
    /\ Le(Assessment.total_max, 300000)
    /\ Code = "ESCALATE_STRUCTURAL"

\* C3: the code is FAST_TRACK_REVIEW exactly when STRUCTURAL_DAMAGE is not
\* flagged, overall_confidence >= 0.8, total_max <= 300000 and neither
\* HIGH_EXPOSURE nor LOW_CONFIDENCE is flagged; both bounds are inclusive.
C3_FastTrackExactly ==
    Done => (Code = "FAST_TRACK_REVIEW" <=> (~StructuralRule /\ FastTrackRule))

\* fast-tracked with both values on their bounds
C3_Witness ==
    /\ Done
    /\ Assessment.overall_confidence = 80
    /\ Assessment.total_max = Num(300000)
    /\ Code = "FAST_TRACK_REVIEW"

RoutingTable(code) ==
    IF code = "FAST_TRACK_REVIEW"
    THEN [assignTo |-> "agent", priority |-> 2, estimatedTimeMinutes |-> 15,
          requiredActions |-> <<"Quick validation", "Fast-track approval">>]
    ELSE IF code = "ESCALATE_STRUCTURAL"
    THEN [assignTo |-> "structural_engineer", priority |-> 5,
          estimatedTimeMinutes |-> 120,
          requiredActions |->
              <<"Structural assessment", "Safety inspection", "Detailed report">>]
    ELSE IF code = "ESCALATE_SENIOR"
    THEN [assignTo |-> "senior_adjuster", priority |-> 4, estimatedTimeMinutes |-> 60,
          requiredActions |->
              <<"Comprehensive review", "Cost validation", "Approval decision">>]
    ELSE [assignTo |-> "agent", priority |-> 3, estimatedTimeMinutes |-> 30,
          requiredActions |-> <<"Initial review", "Cost confirmation">>]

\* C6: routingInstructions are the routing table's row for recommendation.code
\* and nothing else; the priority is in 1..5.
C6_RoutingTable ==
    Done =>
        /\ decision.routingInstructions = RoutingTable(Code)
        /\ decision.routingInstructions.priority \in 1..5

\* a fast-tracked claim routed to an agent with priority 2 within 15 minutes
C6_Witness ==
    /\ Done
    /\ Code = "FAST_TRACK_REVIEW"
    /\ decision.routingInstructions.assignTo = "agent"
    /\ decision.routingInstructions.priority = 2
    /\ decision.routingInstructions.estimatedTimeMinutes = 15

\* C7: total_min and total_max are the sums of the per-part cost ranges of
\* the Cost Estimator plus the labor surcharge on each bound; a single
\* REAR_BUMPER / moderate / 0.85 part without cost gives total_max 78000 and
\* FAST_TRACK_REVIEW.
C7_TotalsWithLabor ==
    Done =>
        /\ Assessment.total_min = Num(computeTotalsFromParts(parts).total_min)
        /\ Assessment.total_max = Num(computeTotalsFromParts(parts).total_max)
        /\ parts = <<Part("rear_bumper", "moderate", 850, Undefined, Undefined, <<>>)>>
           => (Assessment.total_max = Num(78000) /\ Code = "FAST_TRACK_REVIEW")

\* the sum of the numeric estimated_cost_max values of a parts list, NaN when
\* one of them is missing
RECURSIVE SumCostMax(_)
SumCostMax(ps) ==
    IF ps = <<>> THEN Num(0) ELSE Plus(Head(ps).estimated_cost_max, SumCostMax(Tail(ps)))

MismatchRule ==
    \E i \in 1..Len(parts) :
        /\ parts[i].severity = "minor"
        /\ IsNumber(parts[i].estimated_cost_max)
        /\ parts[i].estimated_cost_max[1] > 100000

FragmentationRule == Len(parts) > 5

\* |averageFinalCost - sum| > 2 * standardDeviation, the deviation in hundredths
HistoricalRule ==
    /\ context.historicalData # Undefined
    /\ IsNumber(SumCostMax(parts))
    /\ 100 * Abs(context.historicalData[1].averageFinalCost - SumCostMax(parts)[1])
           > 2 * context.historicalData[1].standardDeviation

\* C10: fraud_risk_score is min(1, 0.3 [mismatch] + 0.2 [more than 5 parts]
\* + 0.4 [historical deviation]) (in tenths here); it lies in [0,1] and is 0
\* when no rule triggers.
C10_FraudScore ==
    Done =>
        /\ Assessment.fraud_risk_score =
               Num(Min(10, (IF MismatchRule THEN 3 ELSE 0)
                           + (IF FragmentationRule THEN 2 ELSE 0)
                           + (IF HistoricalRule THEN 4 ELSE 0)))
        /\ Assessment.fraud_risk_score[1] \in 0..10
        /\ (~MismatchRule /\ ~FragmentationRule /\ ~HistoricalRule)
           => Assessment.fraud_risk_score = Num(0)

\* all three rules trigger
C10_Witness ==
    /\ Done
    /\ MismatchRule /\ FragmentationRule /\ HistoricalRule
    /\ Assessment.fraud_risk_score = Num(9)

----------------------------------------------------------------------------
(* Properties of determineRecommendation (SpecRec) *)

\* C2: with confidence >= 0.8 and total_max <= 300000, a HIGH_EXPOSURE or
\* LOW_CONFIDENCE flag excludes FAST_TRACK_REVIEW.
C2_FlagsBlockFastTrack ==
    (/\ recPc = "done"
     /\ recConfidence >= 80
     /\ Le(recTotalMax, 300000)
     /\ (Includes(recFlags, "HIGH_EXPOSURE") \/ Includes(recFlags, "LOW_CONFIDENCE")))
    => recResult.code # "FAST_TRACK_REVIEW"

\* inside the fast-track window, flagged HIGH_EXPOSURE, not structural
C2_Witness ==
    /\ recPc = "done"
    /\ recConfidence >= 80
    /\ Le(recTotalMax, 300000)
    /\ Includes(recFlags, "HIGH_EXPOSURE")
    /\ ~Includes(recFlags, "STRUCTURAL_DAMAGE")
    /\ recResult.code = "MANUAL_REVIEW"

----------------------------------------------------------------------------
(* Properties of estimatePartCostRange (SpecCost) *)

SuppliedRange ==
    /\ costPart.estimated_cost_min # Undefined
    /\ costPart.estimated_cost_max # Undefined
    /\ costPart.estimated_cost_max[1] >= costPart.estimated_cost_min[1]

\* C8: a part whose estimated_cost_min and estimated_cost_max are numbers with
\* max >= min gets exactly that range back, whatever its part_id, severity
\* and damage_types are, also below MIN_PART_COST and with equal bounds.
C8_PassThrough ==
    (costPc = "done" /\ SuppliedRange) =>
        costRange = [min |-> costPart.estimated_cost_min[1],
                     max |-> costPart.estimated_cost_max[1]]

\* a supplied range below MIN_PART_COST on a part that has damage types
C8_Witness ==
    /\ costPc = "done"
    /\ costPart.estimated_cost_min = Num(5000)
    /\ costPart.estimated_cost_max = Num(8000)
    /\ Len(costPart.damage_types) > 0
    /\ costRange = [min |-> 5000, max |-> 8000]

\* C9: the range derived for a part without a valid supplied range has
\* min <= max, and both are at least MIN_PART_COST (10000 cents).
C9_DerivedRangeOrdered ==
    (costPc = "done" /\ ~SuppliedRange) =>
        /\ costRange.min <= costRange.max
        /\ costRange.min >= 10000
        /\ costRange.max >= 10000

----------------------------------------------------------------------------
(* Properties of repeated applyPolicy calls (SpecCalls) *)

SameArguments(a, b) == a.parts = b.parts /\ a.context = b.context

SameOutcome(a, b) ==
    /\ a.decision.assessment.total_min = b.decision.assessment.total_min
    /\ a.decision.assessment.total_max = b.decision.assessment.total_max
    /\ a.decision.assessment.overall_confidence = b.decision.assessment.overall_confidence
    /\ a.decision.assessment.recommendation.code = b.decision.assessment.recommendation.code
    /\ a.decision.assessment.flags = b.decision.assessment.flags

----------------------------------------------------------------------------
(* Properties of applyPolicy on degenerate input (Spec) *)

\* C12: applyPolicy on zero parts returns total_min = total_max = 0,
\* overall_confidence = 0 and an image_quality list with the note that no
\* parts were detected; computeTotalsFromParts on zero parts returns 0 for
\* all four totals.
C12_EmptyInput ==
    (Done /\ parts = <<>>) =>
        /\ Assessment.total_min = Num(0)
        /\ Assessment.total_max = Num(0)
        /\ Assessment.overall_confidence = 0
        /\ \E i \in 1..Len(Assessment.image_quality) :
               Assessment.image_quality[i] =
                   "No parts detected; verify that photos clearly show the vehicle."
        /\ computeTotalsFromParts(parts) =
               [total_min |-> 0, total_max |-> 0, labor_min |-> 0, labor_max |-> 0]

\* zero parts with a historical context
C12_Witness ==
    /\ Done
    /\ parts = <<>>
    /\ context.historicalData # Undefined
    /\ Assessment.total_max = Num(0)

KnownSeverities == {"minor", "moderate", "severe", "replace", "structural"}

OutOfRangeConfidence(p) == p.confidence < 0 \/ p.confidence > 1000

InvertedRange(p) ==
    /\ IsNumber(p.estimated_cost_min) /\ IsNumber(p.estimated_cost_max)
    /\ p.estimated_cost_max[1] < p.estimated_cost_min[1]

UnknownSeverity(p) == p.severity \notin KnownSeverities

----------------------------------------------------------------------------
(* Properties of validateAssessment on the assessment returned (Spec) *)

Validated == validation # NoValidation

\* the conditions the validator is to surface
SuspectAssessment(a) ==
    \/ Len(a.damaged_parts) = 0
    \/ \E i \in 1..Len(a.damaged_parts) :
           \/ OutOfRangeConfidence(a.damaged_parts[i])
           \/ InvertedRange(a.damaged_parts[i])
           \/ UnknownSeverity(a.damaged_parts[i])

\* C14: validateAssessment returns valid = false with at least one error
\* for every assessment with an empty part list, a part confidence outside
\* 0..1, a part with an inverted cost range or a part of unknown severity;
\* valid is true exactly when the errors list is empty.
C14_ValidatorSurfaces ==
    Validated =>
        /\ SuspectAssessment(Assessment) =>
               (~validation.valid /\ Len(validation.errors) >= 1)
        /\ validation.valid <=> validation.errors = <<>>

----------------------------------------------------------------------------
(* Properties of computeTotalsFromParts (SpecTotals) *)

\* the sums of the parts' estimated ranges
RECURSIVE RangeSum(_)
RangeSum(ps) ==
    IF ps = <<>> THEN [min |-> 0, max |-> 0]
    ELSE LET r == estimatePartCostRange(Head(ps))
             rest == RangeSum(Tail(ps))
         IN  [min |-> r.min + rest.min, max |-> r.max + rest.max]

\* labor is 0.3 x sum rounded to the nearest integer, a half rounded up
IsRoundedLabor(labor, sum) == 10 * labor - 5 <= 3 * sum /\ 3 * sum < 10 * labor + 5

\* C15: labor_min is round(0.3 x the sum of the parts' estimated minima) and
\* labor_max is round(0.3 x the sum of the maxima), each computed from its
\* own sum; total_min and total_max are the sums plus their labor; so
\* total_min <= total_max whenever every part's estimated range has
\* min <= max.
C15_TotalsFromParts ==
    totPc = "done" =>
        LET sum == RangeSum(totParts)
        IN  /\ IsRoundedLabor(totResult.labor_min, sum.min)
            /\ IsRoundedLabor(totResult.labor_max, sum.max)
            /\ totResult.total_min = sum.min + totResult.labor_min
            /\ totResult.total_max = sum.max + totResult.labor_max
            /\ (\A i \in 1..Len(totParts) :
                    estimatePartCostRange(totParts[i]).min
                        <= estimatePartCostRange(totParts[i]).max)
               => totResult.total_min <= totResult.total_max

\* several parts, one with a derived range, whose sums are odd multiples of
\* five cents (0.3 x sum ends in .5) and get different labor
C15_Witness ==
    /\ totPc = "done"
    /\ Len(totParts) >= 2
    /\ \E i \in 1..Len(totParts) : ~IsNumber(totParts[i].estimated_cost_min)
    /\ RangeSum(totParts).min % 10 = 5
    /\ totResult.labor_min # totResult.labor_max
    /\ totResult.total_min < totResult.total_max

----------------------------------------------------------------------------
(* Properties of the risk flags (Spec) *)

\* ESCALATION.HIGH_EXPOSURE_THRESHOLD of the shared policy configuration
\* (src/config/policy.ts), in cents
SHARED_HIGH_EXPOSURE_THRESHOLD == 300000

\* C16: HIGH_EXPOSURE is flagged exactly when total_max is strictly greater
\* than ESCALATION.HIGH_EXPOSURE_THRESHOLD, the threshold being the value of
\* the shared policy configuration (300000 cents); a non-structural claim
\* with total_max between 300001 and 500000 is flagged.
C16_HighExposureSharedThreshold ==
    Done =>
        (Includes(Assessment.flags, "HIGH_EXPOSURE")
            <=> Gt(Assessment.total_max, SHARED_HIGH_EXPOSURE_THRESHOLD))

\* the sum of the part confidences, in thousandths
RECURSIVE ConfidenceTotal(_)
ConfidenceTotal(ps) ==
    IF ps = <<>> THEN 0 ELSE Head(ps).confidence + ConfidenceTotal(Tail(ps))

\* C17: LOW_CONFIDENCE is flagged exactly when overall_confidence is strictly
\* below 0.6; an overall_confidence equal to 0.6 is not flagged, and the test
\* is on the rounded overall_confidence, not on the parts' confidences.
C17_LowConfidenceStrict ==
    Done =>
        /\ Includes(Assessment.flags, "LOW_CONFIDENCE")
               <=> Assessment.overall_confidence < 60
        /\ (Len(parts) > 0 /\ 2 * ConfidenceTotal(parts) >= 1190 * Len(parts))
               => ~Includes(Assessment.flags, "LOW_CONFIDENCE")

\* a part of confidence 0.596: the mean is below 0.6, overall_confidence
\* rounds to 0.6 and the claim is not flagged
C17_Witness ==
    /\ Done
    /\ Len(parts) > 0
    /\ ConfidenceTotal(parts) < 600 * Len(parts)
    /\ \E i \in 1..Len(parts) : parts[i].confidence < 600
    /\ Assessment.overall_confidence = 60
    /\ ~Includes(Assessment.flags, "LOW_CONFIDENCE")

\* twice the severity score of the spec: minor 1, moderate 2, severe 3,
\* replace 3.5, structural 4, any other severity 0
DoubledSeverityScore(severity) ==
    CASE severity = "minor" -> 2
      [] severity = "moderate" -> 4
      [] severity = "severe" -> 6
      [] severity = "replace" -> 7
      [] severity = "structural" -> 8
      [] OTHER -> 0

RECURSIVE DoubledScoreSum(_)
DoubledScoreSum(ps) ==
    IF ps = <<>> THEN 0
    ELSE DoubledSeverityScore(Head(ps).severity) + DoubledScoreSum(Tail(ps))

RECURSIVE DoubledScoreSquares(_)
DoubledScoreSquares(ps) ==
    IF ps = <<>> THEN 0
    ELSE DoubledSeverityScore(Head(ps).severity) * DoubledSeverityScore(Head(ps).severity)
         + DoubledScoreSquares(Tail(ps))

\* the standard deviation of the severity scores exceeds 0.5: the variance
\* of the doubled scores exceeds 1
SeveritySpread(ps) ==
    /\ Len(ps) >= 2
    /\ Len(ps) * DoubledScoreSquares(ps) - DoubledScoreSum(ps) * DoubledScoreSum(ps)
           > Len(ps) * Len(ps)

\* C18: INCONSISTENT_DAMAGE is flagged when historicalData.standardDeviation
\* exceeds 0.3, and, when historicalData is absent and there are at least 2
\* parts, when the standard deviation of the parts' severity scores exceeds
\* 0.5; it is not flagged otherwise.
C18_InconsistentDamage ==
    Done =>
        (Includes(Assessment.flags, "INCONSISTENT_DAMAGE")
            <=> \/ /\ context.historicalData # Undefined
                   /\ context.historicalData[1].standardDeviation > 30
                \/ /\ context.historicalData = Undefined
                   /\ SeveritySpread(parts))

\* PHOTO.MIN_PHOTOS_RECOMMENDED of the shared policy configuration
MIN_PHOTOS_RECOMMENDED == 3

\* C19: MISSING_ANGLES is flagged exactly when the photo count supplied in
\* the context is below the configured minimum of 3.
C19_MissingAngles ==
    Done =>
        (Includes(Assessment.flags, "MISSING_ANGLES")
            <=> /\ context.claim # Undefined
                /\ context.claim[1].photos < MIN_PHOTOS_RECOMMENDED)

----------------------------------------------------------------------------
(* Properties of the compliance notes (Spec) *)

HasNote(note) ==
    \E i \in 1..Len(decision.complianceNotes) : decision.complianceNotes[i] = note

\* the SIU-review note for a score in tenths, the score shown to 2 decimals
SiuReviewNote(score) ==
    CASE score = 6 ->
             "Elevated fraud risk score (0.60): document justification and consider SIU review."
      [] score = 7 ->
             "Elevated fraud risk score (0.70): document justification and consider SIU review."
      [] score = 8 ->
             "Elevated fraud risk score (0.80): document justification and consider SIU review."
      [] score = 9 ->
             "Elevated fraud risk score (0.90): document justification and consider SIU review."
      [] score = 10 ->
             "Elevated fraud risk score (1.00): document justification and consider SIU review."
      [] OTHER -> "no note"

HasSiuReviewNote == \E score \in 0..10 : HasNote(SiuReviewNote(score))

Count(condition) == IF condition THEN 1 ELSE 0

\* C20: complianceNotes holds the manual-verification note iff
\* overall_confidence < 0.5, the enhanced-approval note iff total_max >
\* 1000000, the OEM/safety note iff STRUCTURAL_DAMAGE is flagged and the
\* SIU-review note, with the score to 2 decimals, iff fraud_risk_score > 0.5;
\* the number of notes is the number of conditions that hold.
C20_ComplianceNotes ==
    Done =>
        LET lowConfidence == Assessment.overall_confidence < 50
            highValue == Gt(Assessment.total_max, 1000000)
            structural == Includes(Assessment.flags, "STRUCTURAL_DAMAGE")
            fraud == Assessment.fraud_risk_score[1] > 5
        IN  /\ HasNote("Low model confidence: full manual verification required before payout.")
                   <=> lowConfidence
            /\ HasNote("High value claim: ensure enhanced approval workflow and compliance review.")
                   <=> highValue
            /\ HasNote("Structural damage indicated: ensure safety standards and OEM repair guidelines are followed.")
                   <=> structural
            /\ HasSiuReviewNote <=> fraud
            /\ fraud => HasNote(SiuReviewNote(Assessment.fraud_risk_score[1]))
            /\ Len(decision.complianceNotes) =
                   Count(lowConfidence) + Count(highValue) + Count(structural) + Count(fraud)

\* all four conditions hold and all four notes are returned
C20_Witness ==
    /\ Done
    /\ Assessment.overall_confidence < 50
    /\ Gt(Assessment.total_max, 1000000)
    /\ Includes(Assessment.flags, "STRUCTURAL_DAMAGE")
    /\ Assessment.fraud_risk_score[1] > 5
    /\ Len(decision.complianceNotes) = 4

----------------------------------------------------------------------------
(* The derived range of estimatePartCostRange (SpecCost) *)

\* the terms of the midpoint of a part: base in units of 10000 cents,
\* severityMul in tenths, damageMul as weight / (10000 x count), the weight
\* being the sum of typeMultiplier x areaFactor clamped to [0.4, 2.0] x count
MidpointBase(part) ==
    IF part.part_id \in DOMAIN BASE_PART_COST
    THEN BASE_PART_COST[part.part_id] \div 10000
    ELSE 4

MidpointSeverity(part) ==
    CASE part.severity \in {"minor", "Minor"} -> 6
      [] part.severity = "moderate" -> 10
      [] part.severity \in {"severe", "SEVERE"} -> 15
      [] part.severity = "replace" -> 18
      [] part.severity = "structural" -> 25
      [] OTHER -> 10

MidpointAreaFactor(d) ==
    IF d.area_percentage = Undefined THEN 100
    ELSE IF 2 * d.area_percentage[1] < 30 THEN 30
    ELSE IF 2 * d.area_percentage[1] > 150 THEN 150
    ELSE 2 * d.area_percentage[1]

MidpointTypeMultiplier(d) ==
    CASE d.type \in {"scratch", "SCRATCH"} -> 30
      [] d.type \in {"dent", "Dent"} -> 60
      [] d.type = "structural_compromise" -> 150
      [] OTHER -> 50

RECURSIVE MidpointWeight(_)
MidpointWeight(ds) ==
    IF ds = <<>> THEN 0
    ELSE MidpointTypeMultiplier(Head(ds)) * MidpointAreaFactor(Head(ds))
         + MidpointWeight(Tail(ds))

MidpointDamage(part) ==
    LET count == Len(part.damage_types)
        weight == MidpointWeight(part.damage_types)
    IN  IF count = 0 THEN [num |-> 100, den |-> 100]
        ELSE [num |-> IF weight < 4000 * count THEN 4000 * count
                      ELSE IF weight > 20000 * count THEN 20000 * count
                      ELSE weight,
              den |-> 10000 * count]

\* r is tenths x mid / 10 rounded to the nearest cent, a half rounded up;
\* tenths x mid / 10 = tenths x base x severity x num x 100 / den
IsRoundedBand(r, tenths, part) ==
    LET d == MidpointDamage(part)
        num == tenths * MidpointBase(part) * MidpointSeverity(part) * d.num
        den == d.den \div 100
    IN  2 * r * den - den <= 2 * num /\ 2 * num < 2 * r * den + den

\* tenths x mid / 10 rounds to a value below r
RoundsBelow(r, tenths, part) ==
    LET d == MidpointDamage(part)
        num == tenths * MidpointBase(part) * MidpointSeverity(part) * d.num
        den == d.den \div 100
    IN  2 * num < 2 * r * den - den

\* C21: without a valid pre-set range, mid = base (default 40000) x
\* severityMul (of the lower-cased severity, default 1.0) x damageMul, where
\* damageMul is 1.0 without damage types and else the average of
\* typeMultiplier (default 0.5) x clamp(area / 50, 0.3, 1.5) (1.0 without an
\* area) clamped to [0.4, 2.0]; min = max(10000, round(0.8 x mid)) and
\* max = round(1.2 x mid); REAR_BUMPER / moderate without damage types gives
\* 40000 and 60000.
C21_DerivedRange ==
    (costPc = "done" /\ ~SuppliedRange) =>
        /\ costRange.min >= 10000
        /\ costRange.min > 10000 => IsRoundedBand(costRange.min, 8, costPart)
        /\ costRange.min = 10000 => RoundsBelow(10001, 8, costPart)
        /\ IsRoundedBand(costRange.max, 12, costPart)
        /\ (/\ costPart.part_id = "rear_bumper" /\ costPart.severity = "moderate"
            /\ costPart.damage_types = <<>>)
           => costRange = [min |-> 40000, max |-> 60000]

\* an upper-case severity, an unmapped part id and two damage types, one of
\* an unknown type and one with an area
C21_Witness ==
    /\ costPc = "done"
    /\ ~SuppliedRange
    /\ costPart.severity = "SEVERE"
    /\ costPart.part_id = "hood"
    /\ Len(costPart.damage_types) = 2
    /\ \E i \in 1..2 : costPart.damage_types[i].type = "rust"
    /\ \E i \in 1..2 : costPart.damage_types[i].area_percentage = Num(100)
    /\ costRange.min > 10000

----------------------------------------------------------------------------
(* Properties of the aggregates and helpers of applyPolicy (Spec) *)

\* C22: overall_confidence is the arithmetic mean of the parts' confidences
\* rounded to 2 decimals, without clamping (it leaves [0, 1] when the inputs
\* do), and 0 for an empty list.
C22_OverallConfidenceMean ==
    Done =>
        IF Len(parts) = 0 THEN Assessment.overall_confidence = 0
        ELSE 2 * Abs(10 * Len(parts) * Assessment.overall_confidence
                     - ConfidenceTotal(parts)) <= 10 * Len(parts)

\* a mean above 1 that is not a whole number of hundredths
C22_Witness ==
    /\ Done
    /\ Len(parts) > 1
    /\ ConfidenceTotal(parts) % (10 * Len(parts)) # 0
    /\ Assessment.overall_confidence > 100

\* C23: applyPolicy given a null parts argument fails with an error and
\* returns no assessment; it does not treat the argument as an empty list.
C23_NullPartsFails ==
    (pc # "idle" /\ parts = Null) =>
        /\ pc = "threw"
        /\ decision = NoDecision
        /\ validation = NoValidation

\* the call on null parts with a historical context has thrown
C23_Witness ==
    /\ pc = "threw"
    /\ parts = Null
    /\ context.historicalData # Undefined
    /\ decision = NoDecision

\* C25: whenever applyPolicy recommends FAST_TRACK_REVIEW,
\* requiresSeniorApproval and shouldAutoEscalate are both false for that
\* assessment, also when the fraud rules trigger.
C25_FastTrackNeedsNoSenior ==
    (Done /\ Code = "FAST_TRACK_REVIEW") =>
        /\ ~requiresSeniorApproval(Assessment)
        /\ ~shouldAutoEscalate(Assessment, Undefined)

\* the context with only historicalData.averageFinalCost changed
WithAverageFinalCost(ctx, avg) ==
    IF ctx.historicalData = Undefined THEN ctx
    ELSE [ctx EXCEPT !.historicalData = <<[@[1] EXCEPT !.averageFinalCost = avg]>>]

AverageFinalCosts == {0, 60000, 300000, 2000000}

\* C26: recommendation.code and routingInstructions do not depend on
\* fraud_risk_score: with only historicalData.averageFinalCost changed they
\* are the same, and assignTo is never siu, also for a fraud_risk_score
\* above 0.7.
C26_FraudScoreDoesNotRoute ==
    Done =>
        /\ \A avg \in AverageFinalCosts :
               LET other == applyPolicy(parts, WithAverageFinalCost(context, avg))
               IN  /\ other.assessment.recommendation.code = Code
                   /\ other.routingInstructions = decision.routingInstructions
        /\ decision.routingInstructions.assignTo # "siu"

\* a fraud score above 0.7 that another averageFinalCost brings below it
C26_Witness ==
    /\ Done
    /\ context.historicalData # Undefined
    /\ Assessment.fraud_risk_score[1] > 7
    /\ \E avg \in AverageFinalCosts :
           applyPolicy(parts, WithAverageFinalCost(context, avg))
               .assessment.fraud_risk_score[1] <= 5
    /\ decision.routingInstructions.assignTo = "senior_adjuster"

WellFormedPart(p) ==
    /\ p.confidence >= 0 /\ p.confidence <= 1000
    /\ IsNumber(p.estimated_cost_min) /\ IsNumber(p.estimated_cost_max)
    /\ p.estimated_cost_min[1] <= p.estimated_cost_max[1]

\* C27: for a non-empty parts list whose parts all have a confidence in
\* [0, 1] and numeric estimated_cost_min <= estimated_cost_max,
\* validateAssessment of the assessment applyPolicy returns is valid with no
\* errors, under every context.
C27_WellFormedIsValid ==
    (/\ Validated
     /\ Len(parts) > 0
     /\ \A i \in 1..Len(parts) : WellFormedPart(parts[i]))
    => validation = [valid |-> TRUE, errors |-> <<>>]

\* a well-formed list of low confidence, flagged and escalated, validated
\* under a historical context
C27_Witness ==
    /\ Validated
    /\ Len(parts) > 1
    /\ \A i \in 1..Len(parts) : WellFormedPart(parts[i])
    /\ context.historicalData # Undefined
    /\ Includes(Assessment.flags, "LOW_CONFIDENCE")
    /\ Includes(Assessment.flags, "HIGH_EXPOSURE")
    /\ validation.valid

\* C28: applyPolicy on zero parts flags LOW_CONFIDENCE, recommends
\* ESCALATE_SENIOR and routes to senior_adjuster with priority 4, and
\* validateAssessment of that assessment is not valid.
C28_EmptyEscalatesAndIsInvalid ==
    /\ (Done /\ parts = <<>>) =>
           /\ Assessment.overall_confidence = 0
           /\ Includes(Assessment.flags, "LOW_CONFIDENCE")
           /\ Code = "ESCALATE_SENIOR"
           /\ decision.routingInstructions.assignTo = "senior_adjuster"
           /\ decision.routingInstructions.priority = 4
    /\ (Validated /\ parts = <<>>) =>
           /\ ~validation.valid
           /\ Includes(validation.errors,
                       "Assessment must include at least one damaged part.")

\* the assessment of zero parts has been validated
C28_Witness ==
    /\ Validated
    /\ parts = <<>>
    /\ Code = "ESCALATE_SENIOR"
    /\ Len(validation.errors) = 1

----------------------------------------------------------------------------
(* The no-op calls of the claim store (SpecStore) *)

\* the call has nothing to change in the state it is made in
NoOpCall(state, call) ==
    \/ /\ call.op \in {"overridePart", "removePart"}
       /\ \/ state.assessment = None
          \/ ~HasPartAt(state.assessment[1].damaged_parts, call.index[1])
    \/ /\ call.op = "addPart"
       /\ state.assessment = None

\* C29: overridePart and removePart called with no assessment or with an index
\* that has no part, and addPart called with no assessment, leave the whole
\* store state unchanged, the audit log included
C29_NoOpLeavesStore == [][NoOpCall(store, storeCall') => store' = store]_vars

----------------------------------------------------------------------------
(* The workbench page (SpecPage) *)

\* the totals of the assessment are the sums over its current damaged_parts
TotalsRecomputed(a) ==
    /\ a.total_min = reduceCostMin(a.damaged_parts)
    /\ a.total_max = reduceCostMax(a.damaged_parts)

\* C24: after any sequence of override-part, add-part and remove-part
\* operations on an existing assessment, total_min and total_max equal the
\* totals recomputed from the current damaged_parts list
C24_TotalsFollowParts ==
    page.assessment # None => TotalsRecomputed(page.assessment[1])

\* the same statement for the assessment held by the claim store
StoreTotalsFollowParts ==
    store.assessment # None => TotalsRecomputed(store.assessment[1])

\* C30: after handleUndo restored the latest snapshot, claim, photos,
\* assessment and step keep the snapshot's values until the next user action,
\* a timer completion in between included, and isRunning is false once no
\* assessment is pending
C30_UndoHolds ==
    pageCall.op = "handleUndo" =>
        /\ page.claim = pageCall.restored[1].claim
        /\ page.photos = pageCall.restored[1].photos
        /\ page.assessment = pageCall.restored[1].assessment
        /\ page.step = pageCall.restored[1].step
        /\ pendingTimers = 0 => ~page.isRunning

====
